---- MODULE Spec2Model ----
(***************************************************************************)
(* Model of the TACo performance runner: the steady-rate controller        *)
(* (runSteadyMode, its completion continuation processResult and the       *)
(* steady branch of main, specification Spec), the request executor        *)
(* (executeSigningRequest and withTimeout, SpecExec), the burst controller *)
(* (runBurstMode, SpecBurst), the sweep branch of main (SpecSweep),        *)
(* calculateStats (SpecStats), parseNodeFailures (SpecNf), printResults    *)
(* (SpecPr), generateReport (SpecRp) and saveTestData / loadTestData       *)
(* (SpecSd).  SpecReturning is the steady controller with a clock driven   *)
(* by its timers and with fairness, for the runs that must return.  Each   *)
(* specification runs one component and keeps the variables of the others  *)
(* at their idle values.                                                   *)
(*                                                                         *)
(* Scheduling is that of a single JavaScript event loop: the code between  *)
(* two awaits runs to completion.  The dispatch loop therefore has a       *)
(* position pc; while it is "loop", "after", "returned" or "printed" it    *)
(* is running synchronous code and neither the clock nor a completion can  *)
(* interleave.                                                             *)
(* Completions (the .then continuation of a request) run only while the    *)
(* loop is suspended in `await sleep` ("sleep") or in `await Promise.all`  *)
(* ("drain").  The clock `now` is Date.now() - testStartTime in ms.        *)
(***************************************************************************)
EXTENDS Integers, Sequences, FiniteSets, TLC

\* ---------------------------------------------------------------- bounds
Step == 500
MaxTime == 2000
MaxReq == 3

\* ------------------------------------------------------- program constants
MsPerSec == 1000
DefaultDuration == 60

\* -------------------------------------------------------- optional values
None == [has |-> FALSE, val |-> 0]
Some(v) == [has |-> TRUE, val |-> v]

\* ------------------------------------------------------------ run options
\* rate is a rational num/den requests per second (0.5, 1, 2)
Rates == { [num |-> 1, den |-> 2], [num |-> 1, den |-> 1], [num |-> 2, den |-> 1] }
Durations == { None, Some(0), Some(1) }
RequestCounts == { None, Some(2) }
MaxDurations == { None, Some(1) }
MaxFailures == { None, Some(1), Some(2) }
Timeouts == { 1 }

SteadyModeOptions ==
  [ rate : Rates, duration : Durations, requestCount : RequestCounts,
    maxDuration : MaxDurations, maxConsecutiveFailures : MaxFailures,
    timeout : Timeouts ]

VARIABLES
  options,              \* SteadyModeOptions plus the request timeout
  now,                  \* ms elapsed since testStartTime
  pc,                   \* position of runSteadyMode / main
  nextRequestIndex,
  startTimes,           \* startTimes[i+1] = startTime of request i
  pendingRequests,      \* keys of the pendingRequests map
  completedCount,
  consecutiveFailures,
  results,
  timeline,
  stopReason,
  shouldStop,
  wakeAt,               \* instant at which the pending sleep() timer is due
  remaining,            \* requests awaited by the final Promise.all
  ret,                  \* value returned by runSteadyMode
  summary,              \* RunResult pushed to steadyResults by main
  exitCode              \* process exit code (None while running)

steadyVars == << options, now, pc, nextRequestIndex, startTimes, pendingRequests,
                 completedCount, consecutiveFailures, results, timeline, stopReason,
                 shouldStop, wakeAt, remaining, ret, summary, exitCode >>

\* one executeSigningRequest call per entry of calls, against a shared clock
\* and the process-wide console.error
VARIABLES
  xNow,                 \* Date.now() in ms
  xTimeout,             \* REQUEST_TIMEOUT_SECONDS
  consoleError,         \* the handler currently installed as console.error
  calls                 \* calls[id]: state of one executeSigningRequest call

execVars == << xNow, xTimeout, consoleError, calls >>

\* runBurstMode
VARIABLES
  burstSize,
  totalBatches,
  burstPc,              \* position of runBurstMode
  burstNow,             \* Date.now() - startTime in ms
  batch,
  burstRequestIndex,    \* requestIndex of runBurstMode
  batchPromises,        \* indices of the current batch, in dispatch order
  batchSettled,         \* results of the current batch, in completion order
  burstResults          \* the results array of runBurstMode

burstVars == << burstSize, totalBatches, burstPc, burstNow, batch, burstRequestIndex,
                batchPromises, batchSettled, burstResults >>

\* the sweep branch of main
VARIABLES
  sweepConfig,          \* what loadConfig returned: rates, burstSizes, duration, ...
  sweepPc,              \* position of main
  sweepLevel,           \* position of the running for...of loop in its list
  cooldownRemaining,    \* remaining of cooldownTimer
  cooldownSite,         \* which call of cooldownTimer is running
  sweepLog,             \* levels started and cooldownTimer calls, in order
  steadyResult,         \* success flags of steadyResult.results (line 1116)
  steadyResults,        \* main's steadyResults
  sweepBurstResults,    \* main's burstResults
  sweepExit             \* process exit code

sweepVars == << sweepConfig, sweepPc, sweepLevel, cooldownRemaining, cooldownSite,
                sweepLog, steadyResult, steadyResults, sweepBurstResults, sweepExit >>

\* one call of calculateStats
VARIABLES
  values,               \* the array passed to calculateStats
  values0,              \* its content when calculateStats was called
  statsPc,              \* "idle" before the call, "returned" after
  stats                 \* the Stats object returned

statsVars == << values, values0, statsPc, stats >>

\* one call of parseNodeFailures
VARIABLES
  nfPc,                 \* "loop" in the for...of over errors, then "returned" or "threw"
  nfProcessed,          \* number of messages the loop has consumed
  nfError,              \* the message of the last iteration
  nodeMap,              \* entries of nodeMap in insertion order
  nfFirstSeen,          \* addresses in the order the scan met them first
  nodeFailures          \* the array returned

nfVars == << nfPc, nfProcessed, nfError, nodeMap, nfFirstSeen, nodeFailures >>

\* one call of printResults
VARIABLES
  prResults,            \* the results argument
  prMode,               \* the mode argument
  prPc,                 \* "idle" before the call, then "returned" or "threw"
  runResult             \* the RunResult returned

prVars == << prResults, prMode, prPc, runResult >>

\* calls of generateReport on one TestData object
VARIABLES
  reportData,           \* the TestData object passed to generateReport
  reportData0,          \* its content before the first call
  reportRuns,           \* number of calls made
  charts                \* chartData of every call, in call order

rpVars == << reportData, reportData0, reportRuns, charts >>

\* saveTestData followed by loadTestData on the file it wrote
VARIABLES
  sdData,               \* the TestData value handed to saveTestData
  sdFile,               \* content of the data file (a JSON document)
  sdLoaded,             \* the value loadTestData returns
  sdPc                  \* "start", "saved", "loaded"

sdVars == << sdData, sdFile, sdLoaded, sdPc >>

otherThanSteady == << execVars, burstVars, sweepVars, statsVars, nfVars, prVars, rpVars, sdVars >>
otherThanExec == << steadyVars, burstVars, sweepVars, statsVars, nfVars, prVars, rpVars, sdVars >>
otherThanBurst == << steadyVars, execVars, sweepVars, statsVars, nfVars, prVars, rpVars, sdVars >>
otherThanStats == << steadyVars, execVars, burstVars, sweepVars, nfVars, prVars, rpVars, sdVars >>
otherThanNf == << steadyVars, execVars, burstVars, sweepVars, statsVars, prVars, rpVars, sdVars >>
otherThanPr == << steadyVars, execVars, burstVars, sweepVars, statsVars, nfVars, rpVars, sdVars >>
otherThanRp == << steadyVars, execVars, burstVars, sweepVars, statsVars, nfVars, prVars, sdVars >>
otherThanSd == << steadyVars, execVars, burstVars, sweepVars, statsVars, nfVars, prVars, rpVars >>

\* ------------------------------------------------------- bounds (executor)
MaxCalls == 2

CallIds == 1..MaxCalls

NoResult ==
  [ settled |-> "no", success |-> FALSE, error |-> "none", startTime |-> 0,
    endTime |-> 0, index |-> 0, tacoSigningTimeMs |-> None ]

NotCalled ==
  [ phase |-> "idle", startTime |-> 0, originalConsoleError |-> "original",
    op |-> "none", timer |-> "none", settlements |-> 0, outcome |-> NoResult ]

\* no executeSigningRequest call has been made
ExecIdle ==
  /\ xNow = 0
  /\ xTimeout = 1
  /\ consoleError = "original"
  /\ calls = [id \in CallIds |-> NotCalled]

\* runBurstMode at its first statement
BurstFresh ==
  /\ burstPc = "dispatch"
  /\ burstNow = 0
  /\ batch = 0
  /\ burstRequestIndex = 0
  /\ batchPromises = << >>
  /\ batchSettled = << >>
  /\ burstResults = << >>

\* runBurstMode has not been called
BurstIdle ==
  /\ burstSize = 1
  /\ totalBatches = 1
  /\ BurstFresh

\* main at line 1106
SweepFresh ==
  /\ sweepPc = "steadyLoop"
  /\ sweepLevel = 0
  /\ cooldownRemaining = 0
  /\ cooldownSite = "none"
  /\ sweepLog = << >>
  /\ steadyResult = << >>
  /\ steadyResults = << >>
  /\ sweepBurstResults = << >>
  /\ sweepExit = None

\* main does not run in sweep mode
SweepIdle ==
  /\ sweepConfig = [ rates |-> << >>, burstSizes |-> << >>, duration |-> DefaultDuration,
                     requests |-> None, batchesPerBurst |-> 1, cooldown |-> 1 ]
  /\ SweepFresh

NoStats == [ min |-> -1, max |-> -1, mean |-> -1, p50 |-> -1, p95 |-> -1,
             p99 |-> -1, stdDev |-> -1 ]

\* calculateStats has not been called
StatsFresh ==
  /\ values0 = << >>
  /\ statsPc = "idle"
  /\ stats = NoStats

StatsIdle ==
  /\ values = << >>
  /\ StatsFresh

NoJson == [ present |-> FALSE, parses |-> FALSE, entries |-> << >> ]
NoMessage == [ prefix |-> << >>, json |-> NoJson, suffix |-> << >> ]

\* parseNodeFailures at line 780
NfIdle ==
  /\ nfPc = "loop"
  /\ nfProcessed = 0
  /\ nfError = NoMessage
  /\ nodeMap = << >>
  /\ nfFirstSeen = << >>
  /\ nodeFailures = << >>

NullStats == [ isNull |-> TRUE, stats |-> NoStats ]

NoRunResult ==
  [ mode |-> "none", targetRate |-> 0, duration |-> 0, label |-> None,
    requests |-> [ total |-> 0, success |-> 0, failed |-> 0 ],
    latency |-> NoStats, successLatency |-> NullStats, failureLatency |-> NullStats,
    tacoSigningTime |-> NullStats, successTacoSigningTime |-> NullStats,
    failureTacoSigningTime |-> NullStats, nodeFailures |-> << >>, errors |-> << >> ]

\* printResults has not been called
PrFresh ==
  /\ prPc = "idle"
  /\ runResult = NoRunResult

PrIdle ==
  /\ prResults = << >>
  /\ prMode = "steady"
  /\ PrFresh

NoTestData == [ steadyResults |-> << >>, burstResults |-> << >> ]

\* generateReport has not been called
RpFresh ==
  /\ reportRuns = 0
  /\ charts = << >>

RpIdle ==
  /\ reportData = NoTestData
  /\ reportData0 = NoTestData
  /\ RpFresh

JsUndefined == [ kind |-> "undefined", val |-> 0, text |-> "", members |-> << >> ]
NoFile == [ json |-> "none", val |-> 0, text |-> "", members |-> << >> ]

SdIdle ==
  /\ sdData = JsUndefined
  /\ sdFile = NoFile
  /\ sdLoaded = JsUndefined
  /\ sdPc = "start"

vars == << steadyVars, execVars, burstVars, sweepVars, statsVars, nfVars, prVars, rpVars, sdVars >>

\* ------------------------------------------------------ runSteadyMode setup
\* const intervalMs = 1000 / rate   (exact for every rate of Rates)
IntervalMs(rate) == (MsPerSec * rate.den) \div rate.num

HasStopConditions(o) == o.maxDuration.has \/ o.maxConsecutiveFailures.has

\* variant: a request count or duration bounds the run also with stop conditions
TotalRequests_M(o) ==
  IF o.requestCount.has THEN Some(o.requestCount.val)
  ELSE LET d == IF o.duration.has /\ o.duration.val # 0 THEN o.duration.val ELSE DefaultDuration
       IN Some((d * o.rate.num) \div o.rate.den)
\* requestCount ?? Math.floor((duration || 60) * rate), undefined with stop conditions
TotalRequests(o) ==
  IF HasStopConditions(o) THEN None
  ELSE IF o.requestCount.has THEN Some(o.requestCount.val)
  ELSE LET d == IF o.duration.has /\ o.duration.val # 0 THEN o.duration.val ELSE DefaultDuration
       IN Some((d * o.rate.num) \div o.rate.den)

\* ------------------------------------------------------------ processResult
\* variant: a success leaves the counter as it is
NextConsecutiveFailures_M(c, success) == IF success THEN c ELSE c + 1
\* lines 624-625
NextConsecutiveFailures(c, success) == IF success THEN 0 ELSE c + 1

\* variant: threshold tested one failure too early
StopOnFailures_M(o, c) ==
  o.maxConsecutiveFailures.has /\ c + 1 >= o.maxConsecutiveFailures.val
\* line 652: maxConsecutiveFailures !== undefined && consecutiveFailures >= maxConsecutiveFailures
StopOnFailures(o, c) ==
  o.maxConsecutiveFailures.has /\ c >= o.maxConsecutiveFailures.val

TimelineEntry(result, inFlight) ==
  [ index |-> result.index, timestamp |-> result.endTime,
    duration |-> result.endTime - result.startTime,
    success |-> result.success, inFlight |-> inFlight ]

\* insertion of an entry keeping the timeline sorted by request index
RECURSIVE InsertByIndex(_, _)
InsertByIndex(tl, e) ==
  IF tl = << >> THEN << e >>
  ELSE IF Head(tl).index > e.index THEN << e >> \o tl
  ELSE << Head(tl) >> \o InsertByIndex(Tail(tl), e)

\* variant: timeline kept in dispatch order
TimelinePush_M(tl, e) == InsertByIndex(tl, e)
\* line 629: timeline.push(...)
TimelinePush(tl, e) == Append(tl, e)

\* the controller state processResult reads and writes; stop is its return value
ProcessResult(c, result, inFlight, o) ==
  LET cf == NextConsecutiveFailures(c.consecutiveFailures, result.success)
      hit == StopOnFailures(o, cf)
  IN [ completedCount |-> c.completedCount + 1,
       results |-> Append(c.results, result),
       consecutiveFailures |-> cf,
       timeline |-> TimelinePush(c.timeline, TimelineEntry(result, inFlight)),
       stopReason |-> IF hit THEN "consecutive-failures" ELSE c.stopReason,
       stop |-> hit ]

Controller ==
  [ completedCount |-> completedCount, results |-> results,
    consecutiveFailures |-> consecutiveFailures, timeline |-> timeline,
    stopReason |-> stopReason, stop |-> shouldStop ]

\* ----------------------------------------------------------- loop decisions
\* variant: strict comparison
DurationElapsed_M(o, t) == o.maxDuration.has /\ t > o.maxDuration.val * MsPerSec
\* line 661: maxDuration !== undefined && elapsedSec >= maxDuration
DurationElapsed(o, t) == o.maxDuration.has /\ t >= o.maxDuration.val * MsPerSec

\* variant: strict comparison
ReachedTotal_M(o, n) == TotalRequests(o).has /\ n > TotalRequests(o).val
\* line 665: totalRequests !== undefined && nextRequestIndex >= totalRequests
ReachedTotal(o, n) == TotalRequests(o).has /\ n >= TotalRequests(o).val

\* variant: pacing on the index just dispatched
ExpectedElapsed_M(o, nextIdx) == (nextIdx - 1) * IntervalMs(o.rate)
\* line 682: nextRequestIndex * intervalMs
ExpectedElapsed(o, nextIdx) == nextIdx * IntervalMs(o.rate)

WaitTime(o, nextIdx, elapsed) ==
  LET w == ExpectedElapsed(o, nextIdx) - elapsed IN IF w > 0 THEN w ELSE 0

\* variant: size read before the delete
InFlightAfter_M(pending, requestIndex) == Cardinality(pending)
\* lines 675, 628: pendingRequests.size after pendingRequests.delete(requestIndex)
InFlightAfter(pending, requestIndex) == Cardinality(pending \ {requestIndex})

\* variant: in-flight requests abandoned whatever the stop reason
AbandonsInFlight_M(pending, reason) == pending # {}
\* line 687: pendingRequests.size > 0 && stopReason !== "completed"
AbandonsInFlight(pending, reason) == pending # {} /\ reason # "completed"

\* variant: no lookup before recording
AlreadyRecorded_M(rs, idx) == FALSE
\* line 693: results.find((r) => r.index === result.index)
AlreadyRecorded(rs, idx) == \E k \in 1..Len(rs) : rs[k].index = idx

\* variant: the counter is returned whatever the stop reason
ConsecutiveFailuresAtStop_M(reason, c) == Some(c)
\* line 708
ConsecutiveFailuresAtStop(reason, c) ==
  IF reason = "consecutive-failures" THEN Some(c) ELSE None

\* ------------------------------------------------------------ return value
NoReturn == [has |-> FALSE, stopReason |-> "completed", consecutiveFailuresAtStop |-> None]

\* lines 704-709: the object runSteadyMode resolves to (results and timeline
\* are the arrays themselves, shared with the continuations)
SteadyModeResult(reason, c) ==
  [has |-> TRUE, stopReason |-> reason,
   consecutiveFailuresAtStop |-> ConsecutiveFailuresAtStop(reason, c)]

NoSummary == [has |-> FALSE, total |-> 0, success |-> 0, failed |-> 0,
              timelineLen |-> 0, stopReason |-> "completed",
              consecutiveFailuresAtStop |-> None]

CountSuccess(rs) == Cardinality({k \in 1..Len(rs) : rs[k].success})

\* printResults followed by main's three assignments (lines 1143-1146)
RunResult(rs, tl, r) ==
  [has |-> TRUE, total |-> Len(rs), success |-> CountSuccess(rs),
   failed |-> Len(rs) - CountSuccess(rs), timelineLen |-> Len(tl),
   stopReason |-> r.stopReason,
   consecutiveFailuresAtStop |-> r.consecutiveFailuresAtStop]

\* ------------------------------------------------------------------- Init
SteadyFresh ==
  /\ now = 0
  /\ pc = "loop"
  /\ nextRequestIndex = 0
  /\ startTimes = << >>
  /\ pendingRequests = {}
  /\ completedCount = 0
  /\ consecutiveFailures = 0
  /\ results = << >>
  /\ timeline = << >>
  /\ stopReason = "completed"
  /\ shouldStop = FALSE
  /\ wakeAt = 0
  /\ remaining = {}
  /\ ret = NoReturn
  /\ summary = NoSummary
  /\ exitCode = None

\* the steady controller is not running (specifications of the other components)
SteadyIdle ==
  /\ options = CHOOSE o \in SteadyModeOptions : TRUE
  /\ SteadyFresh

Init ==
  /\ options \in SteadyModeOptions
  /\ SteadyFresh
  /\ ExecIdle
  /\ BurstIdle
  /\ SweepIdle
  /\ StatsIdle
  /\ NfIdle
  /\ PrIdle
  /\ RpIdle
  /\ SdIdle

\* ---------------------------------------------------------------- actions
\* One pass of `while (!shouldStop) { ... }` (lines 659-685), from the loop
\* test to the pacing sleep, to the next pass, or out of the loop.
LoopIteration ==
  /\ UNCHANGED otherThanSteady
  /\ pc = "loop"
  /\ IF shouldStop
       THEN /\ pc' = "after"
            /\ UNCHANGED << nextRequestIndex, startTimes, pendingRequests, stopReason, wakeAt >>
     ELSE IF DurationElapsed(options, now)
       THEN /\ stopReason' = "duration"
            /\ pc' = "after"
            /\ UNCHANGED << nextRequestIndex, startTimes, pendingRequests, wakeAt >>
     ELSE IF ReachedTotal(options, nextRequestIndex)
       THEN /\ pc' = "after"
            /\ UNCHANGED << nextRequestIndex, startTimes, pendingRequests, stopReason, wakeAt >>
     ELSE /\ nextRequestIndex < MaxReq
          /\ nextRequestIndex' = nextRequestIndex + 1
          /\ startTimes' = Append(startTimes, now)
          /\ pendingRequests' = pendingRequests \cup {nextRequestIndex}
          /\ LET waitTime == WaitTime(options, nextRequestIndex', now)
             IN IF waitTime > 0
                  THEN pc' = "sleep" /\ wakeAt' = now + waitTime
                  ELSE pc' = "loop" /\ wakeAt' = wakeAt
          /\ UNCHANGED stopReason
  /\ UNCHANGED << options, now, completedCount, consecutiveFailures, results,
                  timeline, shouldStop, remaining, ret, summary, exitCode >>

\* the sleep() timer fires (never early, possibly late)
Wake ==
  /\ UNCHANGED otherThanSteady
  /\ pc = "sleep"
  /\ now >= wakeAt
  /\ pc' = "loop"
  /\ UNCHANGED << options, now, nextRequestIndex, startTimes, pendingRequests,
                  completedCount, consecutiveFailures, results, timeline,
                  stopReason, shouldStop, wakeAt, remaining, ret, summary, exitCode >>

\* time passes while the loop is suspended
Tick ==
  /\ UNCHANGED otherThanSteady
  /\ pc \in {"sleep", "drain"}
  /\ now + Step <= MaxTime
  /\ now' = now + Step
  /\ UNCHANGED << options, pc, nextRequestIndex, startTimes, pendingRequests,
                  completedCount, consecutiveFailures, results, timeline,
                  stopReason, shouldStop, wakeAt, remaining, ret, summary, exitCode >>

\* The continuation attached at lines 673-678, run with the RequestResult
\* executeSigningRequest resolved to.
Continuation(requestIndex, success, error) ==
  LET result == [ index |-> requestIndex, startTime |-> startTimes[requestIndex + 1],
                  endTime |-> now, success |-> success, error |-> error ]
      pend == pendingRequests \ {requestIndex}
      c == ProcessResult(Controller, result, InFlightAfter(pendingRequests, requestIndex), options)
  IN /\ UNCHANGED otherThanSteady
     /\ pendingRequests' = pend
     /\ completedCount' = c.completedCount
     /\ results' = c.results
     /\ consecutiveFailures' = c.consecutiveFailures
     /\ timeline' = c.timeline
     /\ stopReason' = c.stopReason
     /\ shouldStop' = c.stop
     /\ UNCHANGED << options, now, pc, nextRequestIndex, startTimes, wakeAt,
                     remaining, ret, summary, exitCode >>

TimeoutMs(o) == o.timeout * MsPerSec

\* variant: the request is awaited without a timer
TimedOut_M(o, elapsed) == FALSE
\* lines 470-476: the timer of withTimeout is due timeoutMs after the call
TimedOut(o, elapsed) == elapsed >= TimeoutMs(o)

\* variant: main awaits between printResults and saveTestData
Suspended_M(p) == p \in {"sleep", "drain", "printed"}
\* the awaits at which continuations of requests can run: the pacing sleep
\* (line 685) and the final Promise.all (line 691); main has no await
\* between the return of runSteadyMode (line 1140) and process.exit (1193)
Suspended(p) == p \in {"sleep", "drain"}

\* executeSigningRequestInner settles before the timeout timer fires:
\* success, or a "[taco-signing]" failure
SignResolve(requestIndex, success) ==
  /\ Suspended(pc)
  /\ requestIndex \in pendingRequests
  /\ now - startTimes[requestIndex + 1] <= TimeoutMs(options)
  /\ Continuation(requestIndex, success, IF success THEN "none" ELSE "[taco-signing]")

\* withTimeout's timer wins the race: a "[timeout]" failure
TimeoutFire(requestIndex) ==
  /\ Suspended(pc)
  /\ requestIndex \in pendingRequests
  /\ TimedOut(options, now - startTimes[requestIndex + 1])
  /\ Continuation(requestIndex, FALSE, "[timeout]")

\* lines 687-690: abandon, start the final drain, or fall through to return
AfterLoop ==
  /\ UNCHANGED otherThanSteady
  /\ pc = "after"
  /\ IF ~AbandonsInFlight(pendingRequests, stopReason) /\ pendingRequests # {}
       THEN /\ pc' = "drain"
            /\ remaining' = pendingRequests
            /\ ret' = ret
       ELSE /\ pc' = "returned"
            /\ remaining' = remaining
            /\ ret' = SteadyModeResult(stopReason, consecutiveFailures)
  /\ UNCHANGED << options, now, nextRequestIndex, startTimes, pendingRequests,
                  completedCount, consecutiveFailures, results, timeline,
                  stopReason, shouldStop, wakeAt, summary, exitCode >>

ResultOf(rs, idx) == rs[CHOOSE k \in 1..Len(rs) : rs[k].index = idx]

Min(S) == CHOOSE x \in S : \A y \in S : x <= y

\* lines 692-694: for (const result of remaining) if (!results.find(...)) processResult(result)
RECURSIVE DrainLoop(_, _, _)
DrainLoop(c, rem, o) ==
  IF rem = {} THEN c
  ELSE LET idx == Min(rem)
           result == ResultOf(c.results, idx)
       IN DrainLoop(IF AlreadyRecorded(c.results, idx) THEN c
                    ELSE ProcessResult(c, result, 0, o),
                    rem \ {idx}, o)

\* Promise.all of the snapshot has resolved: lines 691-709
DrainDone ==
  /\ UNCHANGED otherThanSteady
  /\ pc = "drain"
  /\ remaining \cap pendingRequests = {}
  /\ LET c == DrainLoop(Controller, remaining, options)
     IN /\ completedCount' = c.completedCount
        /\ results' = c.results
        /\ consecutiveFailures' = c.consecutiveFailures
        /\ timeline' = c.timeline
        /\ stopReason' = c.stopReason
        /\ ret' = SteadyModeResult(c.stopReason, c.consecutiveFailures)
  /\ pc' = "returned"
  /\ UNCHANGED << options, now, nextRequestIndex, startTimes, pendingRequests,
                  shouldStop, wakeAt, remaining, summary, exitCode >>

\* main, steady branch (lines 1140-1148) and main().catch (1196-1199):
\* printResults reads results[results.length - 1].endTime and throws a
\* TypeError on an empty array; runResult.timeline is the timeline array
\* itself
MainSteady ==
  /\ UNCHANGED otherThanSteady
  /\ pc = "returned"
  /\ IF Len(results) = 0
       THEN summary' = summary /\ exitCode' = Some(1) /\ pc' = "exited"
       ELSE /\ summary' = RunResult(results, timeline, ret)
            /\ exitCode' = exitCode
            /\ pc' = "printed"
  /\ UNCHANGED << options, now, nextRequestIndex, startTimes, pendingRequests,
                  completedCount, consecutiveFailures, results, timeline,
                  stopReason, shouldStop, wakeAt, remaining, ret >>

\* main, lines 1151-1193: saveTestData serialises the summary, its timeline
\* as the array is then, and the process exits
MainSave ==
  /\ UNCHANGED otherThanSteady
  /\ pc = "printed"
  /\ summary' = [ summary EXCEPT !.timelineLen = Len(timeline) ]
  /\ exitCode' = Some(0)
  /\ pc' = "exited"
  /\ UNCHANGED << options, now, nextRequestIndex, startTimes, pendingRequests,
                  completedCount, consecutiveFailures, results, timeline,
                  stopReason, shouldStop, wakeAt, remaining, ret >>

Next ==
  \/ LoopIteration
  \/ Wake
  \/ Tick
  \/ \E i \in 0..(MaxReq - 1), ok \in BOOLEAN : SignResolve(i, ok)
  \/ \E i \in 0..(MaxReq - 1) : TimeoutFire(i)
  \/ AfterLoop
  \/ DrainDone
  \/ MainSteady
  \/ MainSave

Spec == Init /\ [][Next]_vars

TypeOK ==
  /\ pc \in {"loop", "sleep", "after", "drain", "returned", "printed", "exited"}
  /\ nextRequestIndex \in 0..MaxReq
  /\ Len(results) = Len(timeline)

\* ------------------------------------------------------------- properties
Finished == pc \in {"returned", "printed", "exited"}
LoopLeft == pc \in {"after", "drain", "returned", "printed", "exited"}
Failed(rs) == \A k \in 1..Len(rs) : ~rs[k].success
Indices(seq) == { seq[k].index : k \in 1..Len(seq) }
NoDuplicateIndex(seq) ==
  \A k, l \in 1..Len(seq) : seq[k].index = seq[l].index => k = l

\* C1: once a completion has brought the consecutive-failure counter to
\* maxConsecutiveFailures (processResult then sets stopReason to
\* "consecutive-failures"), no further request is dispatched and the stop
\* reason stays "consecutive-failures", whatever completes before the loop wakes.
C1_StopSignalIsFinal ==
  [][ stopReason = "consecutive-failures"
        => /\ nextRequestIndex' = nextRequestIndex
           /\ stopReason' = "consecutive-failures" ]_vars

AllFailRun ==
  /\ pc = "exited"
  /\ options.maxConsecutiveFailures.has
  /\ ~options.maxDuration.has
  /\ Failed(results)

\* C2 (as stated): with maxConsecutiveFailures = K and every request failing,
\* the run ends with "consecutive-failures", consecutiveFailuresAtStop = K and
\* exactly K recorded outcomes.
C2_ExactlyK ==
  AllFailRun =>
    /\ ret.stopReason = "consecutive-failures"
    /\ ret.consecutiveFailuresAtStop = Some(options.maxConsecutiveFailures.val)
    /\ summary.total = options.maxConsecutiveFailures.val

\* C2 (amended): with maxConsecutiveFailures = K and every request failing,
\* the run ends with "consecutive-failures", consecutiveFailuresAtStop >= K,
\* and the number of recorded outcomes equals consecutiveFailuresAtStop.
C2_AtLeastK ==
  AllFailRun =>
    /\ ret.stopReason = "consecutive-failures"
    /\ summary.stopReason = "consecutive-failures"
    /\ ret.consecutiveFailuresAtStop.has
    /\ ret.consecutiveFailuresAtStop.val >= options.maxConsecutiveFailures.val
    /\ summary.total = ret.consecutiveFailuresAtStop.val
    /\ summary.failed = summary.total

C2_Witness ==
  /\ AllFailRun
  /\ summary.total = options.maxConsecutiveFailures.val + 1

\* C3: every steady run that ends on maxDuration or maxConsecutiveFailures,
\* whatever number of requests had completed (including none), yields a
\* RunSummary carrying that stop reason and the process exits with code 0.
C3_EarlyStopExitsZero ==
  (pc = "exited" /\ ret.stopReason \in {"duration", "consecutive-failures"})
    => /\ exitCode = Some(0)
       /\ summary.has
       /\ summary.stopReason = ret.stopReason

\* floor(d * rate) for a rational rate
FloorRate(d, rate) == (d * rate.num) \div rate.den

C4_Dispatched == pendingRequests \cup Indices(results)

C4_Bounded(total) ==
  /\ nextRequestIndex <= total
  /\ LoopLeft => nextRequestIndex = total
  /\ C4_Dispatched = 0..(nextRequestIndex - 1)
  /\ Len(startTimes) = nextRequestIndex

\* C4 (as stated): with no stop condition exactly total requests are
\* dispatched, total being requestCount when given and floor(duration * rate)
\* otherwise, with indices exactly 0..total-1.
C4_TotalFromDuration ==
  (~HasStopConditions(options) /\ (options.requestCount.has \/ options.duration.has))
    => C4_Bounded(IF options.requestCount.has THEN options.requestCount.val
                  ELSE FloorRate(options.duration.val, options.rate))

\* C4 (amended): with no stop condition exactly total requests are dispatched,
\* total being requestCount when given and floor(d * rate) otherwise, where d
\* is duration, or 60 when duration is absent or 0; the dispatched indices are
\* exactly 0..total-1, whatever the outcomes.
C4_TotalWithDefault ==
  ~HasStopConditions(options)
    => C4_Bounded(IF options.requestCount.has THEN options.requestCount.val
                  ELSE FloorRate(IF options.duration.has /\ options.duration.val # 0
                                   THEN options.duration.val ELSE 60,
                                 options.rate))

C4_Witness ==
  /\ ~HasStopConditions(options)
  /\ LoopLeft
  /\ nextRequestIndex = 2
  /\ \E k \in 1..Len(results) : ~results[k].success

\* C5: when a bounded steady run (no stop condition) returns, every dispatched
\* request has been recorded exactly once, results and timeline hold exactly
\* total entries, nothing is in flight and stopReason is "completed".
C5_DrainedOnReturn ==
  (Finished /\ ~HasStopConditions(options))
    => /\ Len(results) = TotalRequests(options).val
       /\ Len(timeline) = TotalRequests(options).val
       /\ pendingRequests = {}
       /\ ret.stopReason = "completed"
       /\ \A i \in 0..(nextRequestIndex - 1) :
            /\ Cardinality({k \in 1..Len(results) : results[k].index = i}) = 1
            /\ Cardinality({k \in 1..Len(timeline) : timeline[k].index = i}) = 1

C5_Witness ==
  /\ Finished
  /\ ~HasStopConditions(options)
  /\ Cardinality(remaining) = 2

\* C6: with maxDuration set, no request is dispatched once maxDuration seconds
\* have elapsed, and a loop pass that begins with maxDuration elapsed ends the
\* run with stopReason "duration".
C6_NoDispatchAfterMaxDuration ==
  [][ (options.maxDuration.has /\ now >= options.maxDuration.val * 1000)
        => /\ nextRequestIndex' = nextRequestIndex
           /\ (pc = "loop" /\ ~shouldStop) => (pc' = "after" /\ stopReason' = "duration")
           /\ (pc = "after" /\ stopReason = "duration")
                => (pc' = "returned" /\ ret'.stopReason = "duration") ]_vars

C6_Witness ==
  /\ pc = "returned"
  /\ ret.stopReason = "duration"
  /\ pendingRequests # {}
  /\ results # << >>

\* C7: the inFlight value of the entry a completion appends equals the number
\* of requests dispatched so far minus the number completed so far, the
\* entry's own request counted as completed.
C7_InFlightIsDispatchedMinusCompleted ==
  [][ \A i \in pendingRequests \ pendingRequests' :
        /\ \E k \in 1..Len(timeline') : timeline'[k].index = i
        /\ \A k \in 1..Len(timeline') :
             timeline'[k].index = i
               => timeline'[k].inFlight = nextRequestIndex' - completedCount' ]_vars

C7_Witness == \E k \in 1..Len(timeline) : timeline[k].inFlight = 2

\* C8: the timeline holds one entry per completed request, in completion
\* order (timestamps non-decreasing along the sequence), not dispatch order.
C8_TimelineInCompletionOrder ==
  /\ Len(timeline) = completedCount
  /\ Indices(timeline) = (0..(nextRequestIndex - 1)) \ pendingRequests
  /\ \A k, l \in 1..Len(timeline) :
       k < l => timeline[k].timestamp <= timeline[l].timestamp

C8_Witness ==
  \E k, l \in 1..Len(timeline) :
    /\ k < l
    /\ timeline[k].index > timeline[l].index
    /\ timeline[k].timestamp < timeline[l].timestamp

\* C9: in every reachable state, also after a stop condition fired and during
\* and after the final drain, no two entries of results and no two entries of
\* timeline carry the same request index.
C9_NoDuplicateIndex == NoDuplicateIndex(results) /\ NoDuplicateIndex(timeline)

C9_Witness ==
  /\ pc = "returned"
  /\ Cardinality(remaining) >= 2
  /\ Len(results) = nextRequestIndex

\* C10: request n (n >= 1) is never dispatched before n * intervalMs has
\* elapsed; at elapsed time t at most floor(t / intervalMs) + 1 requests have
\* been dispatched.
C10_PacingLowerBound ==
  /\ \A n \in 1..(nextRequestIndex - 1) :
       startTimes[n + 1] * options.rate.num >= n * 1000 * options.rate.den
  /\ (nextRequestIndex - 1) * 1000 * options.rate.den <= now * options.rate.num

C10_Witness ==
  \E n \in 1..(nextRequestIndex - 1) :
    /\ n >= 2
    /\ startTimes[n + 1] = startTimes[n]

\* ======================================================================
\* Request executor: withTimeout, executeSigningRequest,
\* executeSigningRequestInner (lines 466-537)
\* ======================================================================
\* Each call races the signing operation against a timer.  The signing
\* operation (signUserOpWithTaco) resolves, rejects, or does neither.  Due
\* timers run before the clock moves on (timers phase of the event loop).

\* lines 519-525: the RequestResult of a signing call that returned
SuccessResult(startTime, tacoStartTime, t) ==
  [ settled |-> "fulfilled", success |-> TRUE, error |-> "none",
    startTime |-> startTime, endTime |-> t, index |-> 0,
    tacoSigningTimeMs |-> Some(t - tacoStartTime) ]

\* variant: the signing time is taken in the catch as well
SigningFailure_M(startTime, t) ==
  [ settled |-> "fulfilled", success |-> FALSE, error |-> "[taco-signing]",
    startTime |-> startTime, endTime |-> t, index |-> 0,
    tacoSigningTimeMs |-> Some(t - startTime) ]
\* lines 526-535: the RequestResult of a signing call that threw; the
\* assignment of line 517 was not reached
SigningFailure(startTime, t) ==
  [ settled |-> "fulfilled", success |-> FALSE, error |-> "[taco-signing]",
    startTime |-> startTime, endTime |-> t, index |-> 0,
    tacoSigningTimeMs |-> None ]

\* variant: no catch around the race, the timer's rejection propagates
TimeoutResult_M(startTime, t) ==
  [ settled |-> "rejected", success |-> FALSE, error |-> "Request timed out",
    startTime |-> startTime, endTime |-> t, index |-> 0,
    tacoSigningTimeMs |-> None ]
\* lines 490-499: the catch of executeSigningRequest
TimeoutResult(startTime, t) ==
  [ settled |-> "fulfilled", success |-> FALSE, error |-> "[timeout]",
    startTime |-> startTime, endTime |-> t, index |-> 0,
    tacoSigningTimeMs |-> None ]

\* variant: the last settlement of the race wins
RaceSettle_M(current, incoming) == incoming
\* line 475: Promise.race settles once, with the first settlement
RaceSettle(current, incoming) ==
  IF current.settled = "no" THEN incoming ELSE current

Deadline(c) == c.startTime + xTimeout * MsPerSec

InitExec ==
  /\ SteadyIdle
  /\ xNow = 0
  /\ xTimeout \in Timeouts
  /\ consoleError = "original"
  /\ calls = [id \in CallIds |-> NotCalled]
  /\ BurstIdle
  /\ SweepIdle
  /\ StatsIdle
  /\ NfIdle
  /\ PrIdle
  /\ RpIdle
  /\ SdIdle

\* lines 479-489 and 509-516: the synchronous part of a call, up to the
\* await of the signing operation; withTimeout arms the timer
ExecCall(id) ==
  /\ calls[id].phase = "idle"
  /\ xNow + xTimeout * MsPerSec + Step <= MaxTime
  /\ calls' = [calls EXCEPT ![id] =
       [ phase |-> "waiting", startTime |-> xNow,
         originalConsoleError |-> consoleError,
         op |-> "pending", timer |-> "armed", settlements |-> 0,
         outcome |-> NoResult ]]
  /\ consoleError' = "noop"
  /\ UNCHANGED << xNow, xTimeout, otherThanExec >>

\* the signing operation settles, and everything that follows in the same
\* turn of the event loop: executeSigningRequestInner returns; if the race
\* is still open it settles, .finally clears the timer, executeSigningRequest
\* returns the result and its finally restores console.error
SignOpSettles(id, ok) ==
  LET c == calls[id]
      inner == IF ok THEN SuccessResult(c.startTime, c.startTime, xNow)
               ELSE SigningFailure(c.startTime, xNow)
      open == c.outcome.settled = "no"
  IN /\ c.op = "pending"
     /\ c.timer = "armed" => xNow <= Deadline(c)
     /\ calls' = [calls EXCEPT ![id] =
          [ c EXCEPT !.op = IF ok THEN "resolved" ELSE "rejected",
                     !.outcome = RaceSettle(c.outcome, inner),
                     !.settlements = IF RaceSettle(c.outcome, inner) = c.outcome
                                       THEN c.settlements ELSE c.settlements + 1,
                     !.timer = IF open THEN "cleared" ELSE c.timer,
                     !.phase = "settled" ]]
     /\ consoleError' = IF open THEN c.originalConsoleError ELSE consoleError
     /\ UNCHANGED << xNow, xTimeout, otherThanExec >>

\* the timer of withTimeout fires: the race rejects, the catch of
\* executeSigningRequest builds the "[timeout]" result, finally restores
\* console.error; the signing operation is left running
TimerFires(id) ==
  LET c == calls[id]
  IN /\ c.timer = "armed"
     /\ xNow >= Deadline(c)
     /\ calls' = [calls EXCEPT ![id] =
          [ c EXCEPT !.timer = "fired",
                     !.outcome = RaceSettle(c.outcome, TimeoutResult(c.startTime, xNow)),
                     !.settlements = c.settlements + 1,
                     !.phase = "settled" ]]
     /\ consoleError' = c.originalConsoleError
     /\ UNCHANGED << xNow, xTimeout, otherThanExec >>

TimerDue == \E id \in CallIds : calls[id].timer = "armed" /\ xNow >= Deadline(calls[id])

ExecTick ==
  /\ ~TimerDue
  /\ xNow + Step <= MaxTime
  /\ xNow' = xNow + Step
  /\ UNCHANGED << xTimeout, consoleError, calls, otherThanExec >>

NextExec ==
  \/ \E id \in CallIds : ExecCall(id)
  \/ \E id \in CallIds, ok \in BOOLEAN : SignOpSettles(id, ok)
  \/ \E id \in CallIds : TimerFires(id)
  \/ ExecTick

SpecExec == InitExec /\ [][NextExec]_vars

\* timers that are due fire, and the clock does not stop
SpecExecFair ==
  /\ SpecExec
  /\ \A id \in CallIds : WF_vars(TimerFires(id))
  /\ WF_vars(ExecTick)

\* C11: whatever the signing operation does (resolves, throws, never
\* settles), a call of executeSigningRequest settles, exactly once, fulfilled
\* with a RequestResult, and never rejects.
C11_AlwaysOneResult ==
  /\ [] \A id \in CallIds :
          /\ calls[id].outcome.settled # "rejected"
          /\ calls[id].settlements <= 1
          /\ calls[id].phase = "settled"
               => (calls[id].settlements = 1 /\ calls[id].outcome.settled = "fulfilled")
  /\ \A id \in CallIds :
       (calls[id].phase = "waiting") ~> (calls[id].outcome.settled = "fulfilled")

C11_Witness ==
  \E id \in CallIds :
    /\ calls[id].op = "pending"
    /\ calls[id].outcome.settled = "fulfilled"

\* C12: a timer that fires gives the request a failed outcome carrying the
\* "[timeout]" tag; no other outcome carries that tag and every other outcome
\* was produced within the timeout; once a request has its outcome, a later
\* settlement of the signing operation neither changes it nor adds a second one.
C12_TimeoutOutcomeIsFinal ==
  [][ \A id \in CallIds :
        /\ calls'[id].timer = "fired"
             => (~calls'[id].outcome.success /\ calls'[id].outcome.error = "[timeout]")
        /\ (calls'[id].outcome.settled # "no" /\ calls'[id].timer # "fired")
             => /\ calls'[id].outcome.error # "[timeout]"
                /\ calls'[id].outcome.endTime - calls'[id].startTime <= xTimeout * 1000
        /\ calls[id].outcome.settled # "no"
             => (calls'[id].outcome = calls[id].outcome
                 /\ calls'[id].settlements = calls[id].settlements) ]_vars

C12_Witness ==
  \E id \in CallIds :
    /\ calls[id].timer = "fired"
    /\ calls[id].op = "resolved"
    /\ calls[id].outcome.error = "[timeout]"

\* ======================================================================
\* Burst controller: runBurstMode (lines 712-760)
\* ======================================================================
MaxBurstTime == 1000

BurstSizes == { 1, 2, 3 }
BatchCounts == { 1, 2 }

\* line 718
BurstTotalRequests == totalBatches * burstSize

\* line 731: Math.min(burstSize, totalRequests - requestIndex)
CurrentBatchSize ==
  IF burstSize <= BurstTotalRequests - burstRequestIndex
    THEN burstSize ELSE BurstTotalRequests - burstRequestIndex

SettledIndices == { batchSettled[k].index : k \in 1..Len(batchSettled) }

BatchInFlight ==
  { batchPromises[k] : k \in 1..Len(batchPromises) } \ SettledIndices

\* variant: the await resumes on the first settled request
BatchAwaited_M(promises, settled) == promises = << >> \/ settled # << >>
\* line 740: Promise.all resolves when every promise of the batch has
BatchAwaited(promises, settled) == Len(settled) = Len(promises)

\* variant: results taken in completion order
BatchResults_M(promises, settled) == settled
\* line 740: Promise.all yields the values in the order of batchPromises
BatchResults(promises, settled) ==
  LET done == { k \in 1..Len(promises) :
                  \E j \in 1..Len(settled) : settled[j].index = promises[k] }
      pos(k) == Cardinality({ i \in done : i <= k })
  IN [ n \in 1..Cardinality(done) |->
         LET k == CHOOSE i \in done : pos(i) = n
         IN settled[CHOOSE j \in 1..Len(settled) : settled[j].index = promises[k]] ]

InitBurst ==
  /\ SteadyIdle
  /\ ExecIdle
  /\ burstSize \in BurstSizes
  /\ totalBatches \in BatchCounts
  /\ BurstFresh
  /\ SweepIdle
  /\ StatsIdle
  /\ NfIdle
  /\ PrIdle
  /\ RpIdle
  /\ SdIdle

\* lines 729-738: the loop test and the synchronous dispatch of one batch,
\* or line 758-759 when every batch is done
BurstDispatch ==
  /\ burstPc = "dispatch"
  /\ IF batch < totalBatches
       THEN /\ batchPromises' = [ i \in 1..CurrentBatchSize |-> burstRequestIndex + i - 1 ]
            /\ burstRequestIndex' = burstRequestIndex + CurrentBatchSize
            /\ batchSettled' = << >>
            /\ burstPc' = "await"
       ELSE /\ burstPc' = "done"
            /\ UNCHANGED << batchPromises, batchSettled, burstRequestIndex >>
  /\ UNCHANGED << burstSize, totalBatches, burstNow, batch, burstResults,
                  otherThanBurst >>

\* line 737: a request of the batch resolves, .then stamps its index
BurstComplete(idx, ok) ==
  /\ burstPc = "await"
  /\ idx \in BatchInFlight
  /\ batchSettled' = Append(batchSettled,
       [ index |-> idx, success |-> ok, endTime |-> burstNow ])
  /\ UNCHANGED << burstSize, totalBatches, burstPc, burstNow, batch, burstRequestIndex,
                  batchPromises, burstResults, otherThanBurst >>

\* lines 740-741: the await resumes, results.push(...batchResults), batch++
BurstBatchDone ==
  /\ burstPc = "await"
  /\ BatchAwaited(batchPromises, batchSettled)
  /\ burstResults' = burstResults \o BatchResults(batchPromises, batchSettled)
  /\ batch' = batch + 1
  /\ burstPc' = "dispatch"
  /\ UNCHANGED << burstSize, totalBatches, burstNow, burstRequestIndex, batchPromises,
                  batchSettled, otherThanBurst >>

BurstTick ==
  /\ burstPc = "await"
  /\ burstNow + Step <= MaxBurstTime
  /\ burstNow' = burstNow + Step
  /\ UNCHANGED << burstSize, totalBatches, burstPc, batch, burstRequestIndex,
                  batchPromises, batchSettled, burstResults, otherThanBurst >>

NextBurst ==
  \/ BurstDispatch
  \/ \E idx \in 0..(burstRequestIndex - 1), ok \in BOOLEAN : BurstComplete(idx, ok)
  \/ BurstBatchDone
  \/ BurstTick

SpecBurst == InitBurst /\ [][NextBurst]_vars

\* C13: no request of batch k+1 is dispatched before every request of batch k
\* has completed: requests are dispatched only while nothing is in flight, all
\* in-flight requests belong to one batch and there are at most burstSize of them.
C13_BatchesDoNotOverlap ==
  [][ /\ burstRequestIndex' > burstRequestIndex => BatchInFlight = {}
      /\ Cardinality(BatchInFlight') <= burstSize
      /\ \A i, j \in BatchInFlight' : i \div burstSize = j \div burstSize
      /\ \A i \in BatchInFlight' : \A k \in 1..Len(burstResults') :
           burstResults'[k].index \div burstSize < i \div burstSize ]_vars

C13_Witness ==
  /\ batch = 1
  /\ Cardinality(BatchInFlight) = 2
  /\ Len(burstResults) = 2

\* C14: runBurstMode returns exactly burstSize * totalBatches outcomes whose
\* indices in sequence order are 0, 1, ..., whatever the completion order
\* inside a batch, and every batch dispatches exactly burstSize requests.
C14_FlatIncreasingIndices ==
  /\ \A k \in 1..Len(burstResults) : burstResults[k].index = k - 1
  /\ burstPc = "await" => Len(batchPromises) = burstSize
  /\ burstRequestIndex = (IF burstPc = "await" THEN batch + 1 ELSE batch) * burstSize
  /\ burstPc = "done" => Len(burstResults) = burstSize * totalBatches

C14_Witness ==
  /\ burstPc = "done"
  /\ totalBatches = 2
  /\ \E k \in 1..Len(burstResults) :
       /\ k < Len(burstResults)
       /\ burstResults[k].endTime > burstResults[k + 1].endTime

\* ======================================================================
\* Sweep orchestrator: the sweep branch of main (lines 1106-1135),
\* cooldownTimer (lines 572-581) and the first statement of printResults
\* ======================================================================
MaxLevels == 3

\* line 1118: slice(-10), line 1119: length >= 10
EarlyWindow == 10

\* the rates 0.5 and 1 of line 1013
SweepRates == { r \in Rates : r.num = 1 }
SweepBurstSizes == { 1, 2 }
SweepDurations == { 1, 10 }
SweepRequests == { None, Some(11) }
Cooldowns == { 1 }

RateLists == UNION { [1..k -> SweepRates] : k \in 0..MaxLevels }
BurstSizeLists == UNION { [1..k -> SweepBurstSizes] : k \in 1..2 }

otherThanSweep == << steadyVars, execVars, burstVars, statsVars, nfVars, prVars, rpVars, sdVars >>

\* line 1116: the options object passed to runSteadyMode
SweepSteadyOptions(testRate) ==
  [ rate |-> testRate, duration |-> Some(sweepConfig.duration),
    requestCount |-> sweepConfig.requests, maxDuration |-> None,
    maxConsecutiveFailures |-> None, timeout |-> 1 ]

\* success flags of the results of a steady run of n requests: all succeed,
\* all fail, or all fail but the one at position p
OutcomesOf(n) ==
  { [ k \in 1..n |-> TRUE ], [ k \in 1..n |-> FALSE ] }
    \cup { [ k \in 1..n |-> k = p ] :
             p \in { n - EarlyWindow, n - EarlyWindow + 1 } \cap 1..n }

\* line 1118: results.slice(-10)
Last10(rs) ==
  SubSeq(rs, IF Len(rs) > EarlyWindow THEN Len(rs) - EarlyWindow + 1 ELSE 1, Len(rs))

\* variant: the test of every() alone
StoppedEarly_M(rs) == \A k \in 1..Len(Last10(rs)) : ~Last10(rs)[k]
\* line 1119: last10.length >= 10 && last10.every((r) => !r.success)
StoppedEarly(rs) ==
  /\ Len(Last10(rs)) >= EarlyWindow
  /\ \A k \in 1..Len(Last10(rs)) : ~Last10(rs)[k]

\* line 808: results[results.length - 1].endTime throws on an empty array
PrintResultsThrows(rs) == Len(rs) = 0

\* lines 1117-1121: the RunResult of a steady level
SweepRunResult(testRate, rs) ==
  [ targetRate |-> testRate, total |-> Len(rs),
    failed |-> Cardinality({ k \in 1..Len(rs) : ~rs[k] }),
    stoppedEarly |-> StoppedEarly(rs) ]

\* variant: cooldown after every level but the one at the last position
CooldownAfter_M(list, i) == i # Len(list)
\* lines 1123, 1134: testRate !== rates[rates.length - 1]
CooldownAfter(list, i) == list[i] # list[Len(list)]

LevelEvent(kind, i) == [ kind |-> kind, level |-> i ]
CooldownEvent == [ kind |-> "cooldown", level |-> 0 ]

InitSweep ==
  /\ SteadyIdle
  /\ ExecIdle
  /\ BurstIdle
  /\ StatsIdle
  /\ NfIdle
  /\ PrIdle
  /\ RpIdle
  /\ SdIdle
  /\ sweepConfig \in [ rates : RateLists, burstSizes : BurstSizeLists,
                       duration : SweepDurations, requests : SweepRequests,
                       batchesPerBurst : { 1 }, cooldown : Cooldowns ]
  /\ SweepFresh

\* lines 1112-1116: the next rate of the list and the call of runSteadyMode,
\* or line 1126 after the last rate
SweepSteadyNext ==
  /\ sweepPc = "steadyLoop"
  /\ IF sweepLevel < Len(sweepConfig.rates)
       THEN /\ sweepLevel' = sweepLevel + 1
            /\ sweepLog' = Append(sweepLog, LevelEvent("steady", sweepLevel + 1))
            /\ sweepPc' = "steadyRun"
            /\ UNCHANGED << cooldownRemaining, cooldownSite >>
       ELSE /\ sweepLog' = Append(sweepLog, CooldownEvent)
            /\ cooldownRemaining' = sweepConfig.cooldown
            /\ cooldownSite' = "beforeBurst"
            /\ sweepPc' = "cooldown"
            /\ UNCHANGED sweepLevel
  /\ UNCHANGED << sweepConfig, steadyResult, steadyResults, sweepBurstResults,
                  sweepExit, otherThanSweep >>

\* lines 1116-1123: runSteadyMode returns its results, printResults, the
\* stoppedEarly test, the push and the test for a cooldown; the exception of
\* printResults reaches main().catch (lines 1196-1199)
SweepSteadyLevel(rs) ==
  /\ sweepPc = "steadyRun"
  /\ Len(rs) = TotalRequests(SweepSteadyOptions(sweepConfig.rates[sweepLevel])).val
  /\ steadyResult' = rs
  /\ IF PrintResultsThrows(rs)
       THEN /\ sweepPc' = "exit"
            /\ sweepExit' = Some(1)
            /\ UNCHANGED << steadyResults, sweepLog, cooldownRemaining, cooldownSite >>
       ELSE /\ steadyResults' = Append(steadyResults,
                 SweepRunResult(sweepConfig.rates[sweepLevel], rs))
            /\ UNCHANGED sweepExit
            /\ IF CooldownAfter(sweepConfig.rates, sweepLevel)
                 THEN /\ sweepLog' = Append(sweepLog, CooldownEvent)
                      /\ cooldownRemaining' = sweepConfig.cooldown
                      /\ cooldownSite' = "steady"
                      /\ sweepPc' = "cooldown"
                 ELSE /\ sweepPc' = "steadyLoop"
                      /\ UNCHANGED << sweepLog, cooldownRemaining, cooldownSite >>
  /\ UNCHANGED << sweepConfig, sweepLevel, sweepBurstResults, otherThanSweep >>

\* lines 573-578: one iteration of cooldownTimer, await sleep(1000)
CooldownTick ==
  /\ sweepPc = "cooldown"
  /\ cooldownRemaining > 0
  /\ cooldownRemaining' = cooldownRemaining - 1
  /\ UNCHANGED << sweepConfig, sweepPc, sweepLevel, cooldownSite, sweepLog,
                  steadyResult, steadyResults, sweepBurstResults, sweepExit,
                  otherThanSweep >>

\* lines 573, 580: cooldownTimer returns to its caller
CooldownDone ==
  /\ sweepPc = "cooldown"
  /\ cooldownRemaining = 0
  /\ sweepPc' = IF cooldownSite = "steady" THEN "steadyLoop" ELSE "burstLoop"
  /\ sweepLevel' = IF cooldownSite = "beforeBurst" THEN 0 ELSE sweepLevel
  /\ cooldownSite' = "none"
  /\ UNCHANGED << sweepConfig, cooldownRemaining, sweepLog, steadyResult,
                  steadyResults, sweepBurstResults, sweepExit, otherThanSweep >>

\* lines 1128-1132: the next burst size and the call of runBurstMode, or
\* line 1150 after the last one
SweepBurstNext ==
  /\ sweepPc = "burstLoop"
  /\ IF sweepLevel < Len(sweepConfig.burstSizes)
       THEN /\ sweepLevel' = sweepLevel + 1
            /\ sweepLog' = Append(sweepLog, LevelEvent("burst", sweepLevel + 1))
            /\ sweepPc' = "burstRun"
       ELSE /\ sweepPc' = "save"
            /\ UNCHANGED << sweepLevel, sweepLog >>
  /\ UNCHANGED << sweepConfig, cooldownRemaining, cooldownSite, steadyResult,
                  steadyResults, sweepBurstResults, sweepExit, otherThanSweep >>

\* lines 1132-1134: runBurstMode returns burstSize * batchesPerBurst results
\* of which `failed` failed, printResults, the push and the test for a cooldown
SweepBurstLevel(failed) ==
  LET size == sweepConfig.burstSizes[sweepLevel]
      total == size * sweepConfig.batchesPerBurst
  IN /\ sweepPc = "burstRun"
     /\ failed \in { 0, total }
     /\ sweepBurstResults' = Append(sweepBurstResults,
          [ targetRate |-> size, total |-> total, failed |-> failed ])
     /\ IF CooldownAfter(sweepConfig.burstSizes, sweepLevel)
          THEN /\ sweepLog' = Append(sweepLog, CooldownEvent)
               /\ cooldownRemaining' = sweepConfig.cooldown
               /\ cooldownSite' = "burst"
               /\ sweepPc' = "cooldown"
          ELSE /\ sweepPc' = "burstLoop"
               /\ UNCHANGED << sweepLog, cooldownRemaining, cooldownSite >>
     /\ UNCHANGED << sweepConfig, sweepLevel, steadyResult, steadyResults,
                     sweepExit, otherThanSweep >>

\* lines 1150-1193: the test data is saved and the process exits with 0
SweepSave ==
  /\ sweepPc = "save"
  /\ sweepPc' = "exit"
  /\ sweepExit' = Some(0)
  /\ UNCHANGED << sweepConfig, sweepLevel, cooldownRemaining, cooldownSite, sweepLog,
                  steadyResult, steadyResults, sweepBurstResults, otherThanSweep >>

NextSweep ==
  \/ SweepSteadyNext
  \/ \E n \in 0..(2 * EarlyWindow) : \E rs \in OutcomesOf(n) : SweepSteadyLevel(rs)
  \/ CooldownTick
  \/ CooldownDone
  \/ SweepBurstNext
  \/ \E failed \in 0..2 : SweepBurstLevel(failed)
  \/ SweepSave

SpecSweep == InitSweep /\ [][NextSweep]_vars

\* the levels of the configuration in the order of the lists
ExpectedLevels ==
  [ k \in 1..Len(sweepConfig.rates) |-> LevelEvent("steady", k) ]
    \o [ k \in 1..Len(sweepConfig.burstSizes) |-> LevelEvent("burst", k) ]

LevelsStarted == SelectSeq(sweepLog, LAMBDA e : e.kind # "cooldown")

\* C15: the steady controller runs once for every configured rate in list
\* order, then the burst controller once for every burst size in list order,
\* whatever the outcomes of earlier levels: the levels started are always a
\* prefix of the configured levels, and all of them when the process has exited.
C15_EveryLevelRuns ==
  /\ Len(LevelsStarted) <= Len(ExpectedLevels)
  /\ LevelsStarted = SubSeq(ExpectedLevels, 1, Len(LevelsStarted))
  /\ sweepExit.has => LevelsStarted = ExpectedLevels

\* C16: a cooldown lies between every two consecutive levels (steady-steady,
\* burst-burst, and last steady - first burst), exactly once, for every list
\* of rates and of burst sizes, repeated values included.
C16_CooldownBetweenLevels ==
  \A k \in 1..(Len(sweepLog) - 1) :
    (sweepLog[k].kind = "cooldown") # (sweepLog[k + 1].kind = "cooldown")

\* C17 as stated: stoppedEarly is true exactly when the last min(10, n)
\* outcomes of the level are all failures.
C17_FlagOnLastMin10 ==
  [][ steadyResults' # steadyResults =>
        LET n == Len(steadyResult')
            m == IF n < EarlyWindow THEN n ELSE EarlyWindow
        IN steadyResults'[Len(steadyResults')].stoppedEarly
             = (\A k \in (n - m + 1)..n : ~steadyResult'[k]) ]_vars

\* C17 amended: stoppedEarly is true exactly when the level produced at least
\* 10 outcomes and the last 10 are all failures; whatever the flag, the sweep
\* goes on to the next level, which runs its full number of requests.
C17_FlagNeedsTenOutcomes ==
  [][ steadyResults' # steadyResults =>
        LET n == Len(steadyResult')
            last == steadyResults'[Len(steadyResults')]
        IN /\ last.stoppedEarly
                = (n >= EarlyWindow /\ \A k \in (n - EarlyWindow + 1)..n : ~steadyResult'[k])
           /\ last.total
                = TotalRequests(SweepSteadyOptions(sweepConfig.rates[sweepLevel])).val
           /\ sweepLevel' = sweepLevel
           /\ sweepPc' \in { "steadyLoop", "cooldown" }
           /\ ~sweepExit'.has ]_vars

C17_Witness ==
  /\ sweepPc = "steadyRun"
  /\ \E i, j \in 1..Len(steadyResults) :
       /\ i < j
       /\ steadyResults[i].total < EarlyWindow
       /\ steadyResults[i].failed = steadyResults[i].total
       /\ ~steadyResults[i].stoppedEarly
       /\ steadyResults[j].stoppedEarly

\* ======================================================================
\* Statistics: calculateStats (lines 543-566)
\* ======================================================================
MaxLen == 3
MaxValue == 3

\* durations in ms; the vectors of 10, 20 and 100 values are given in
\* decreasing order so that sorting has work to do
StatsInputs ==
  UNION { [1..n -> 0..MaxValue] : n \in 0..MaxLen }
    \cup { [ k \in 1..10 |-> 10 * k ], << 100 >>,
           [ k \in 1..20 |-> 21 - k ], [ k \in 1..100 |-> 101 - k ] }

\* line 547: sort((a, b) => a - b), the stable ascending arrangement: the
\* element at position k goes after the smaller ones and the equal ones before it
SortAsc(s) ==
  LET pos(k) == Cardinality({ j \in 1..Len(s) :
                    s[j] < s[k] \/ (s[j] = s[k] /\ j <= k) })
  IN [ i \in 1..Len(s) |-> s[CHOOSE k \in 1..Len(s) : pos(k) = i] ]

RECURSIVE Sum(_)
\* line 548: reduce((a, b) => a + b, 0)
Sum(s) == IF s = << >> THEN 0 ELSE Sum(SubSeq(s, 1, Len(s) - 1)) + s[Len(s)]

\* line 560: Math.round(sum / n), halves rounded up
RoundedMean(sum, n) == (2 * sum + n) \div (2 * n)

\* lines 550-552, 564: Math.round(Math.sqrt(avgSquaredDiff)) where
\* avgSquaredDiff = (n * sum(v^2) - sum(v)^2) / n^2
RoundedStdDev(s) ==
  LET n == Len(s)
      sq == n * Sum([ k \in 1..n |-> s[k] * s[k] ]) - Sum(s) * Sum(s)
  IN CHOOSE r \in 0..(s[n] - s[1]) :
       /\ r = 0 \/ (2 * r - 1) * (2 * r - 1) * n * n <= 4 * sq
       /\ 4 * sq < (2 * r + 1) * (2 * r + 1) * n * n

\* variant: floor(p / 100 * n)
PercentileIndex_M(p, n) == (p * n) \div 100
\* line 554: Math.ceil((p / 100) * sorted.length) - 1
PercentileIndex(p, n) == ((p * n + 99) \div 100) - 1

\* line 555: Math.max(0, Math.min(index, sorted.length - 1))
Clamp(index, n) ==
  LET upper == IF index < n - 1 THEN index ELSE n - 1
  IN IF upper > 0 THEN upper ELSE 0

\* lines 553-556 (sequences are indexed from 1)
Percentile(sorted, p) == sorted[Clamp(PercentileIndex(p, Len(sorted)), Len(sorted)) + 1]

\* variant: a single value is treated like no value
EmptyInput_M(vs) == Len(vs) <= 1
\* line 544
EmptyInput(vs) == Len(vs) = 0

\* lines 544-565
calculateStats(vs) ==
  IF EmptyInput(vs)
    THEN [ min |-> 0, max |-> 0, mean |-> 0, p50 |-> 0, p95 |-> 0, p99 |-> 0,
           stdDev |-> 0 ]
    ELSE LET sorted == SortAsc(vs)
         IN [ min |-> sorted[1], max |-> sorted[Len(sorted)],
              mean |-> RoundedMean(Sum(sorted), Len(sorted)),
              p50 |-> Percentile(sorted, 50), p95 |-> Percentile(sorted, 95),
              p99 |-> Percentile(sorted, 99), stdDev |-> RoundedStdDev(sorted) ]

\* variant: values.sort(...) without the copy
ValuesAfter_M(vs) == SortAsc(vs)
\* line 547: [...values] is sorted, values is left as it was
ValuesAfter(vs) == vs

InitStats ==
  /\ SteadyIdle
  /\ ExecIdle
  /\ BurstIdle
  /\ SweepIdle
  /\ NfIdle
  /\ PrIdle
  /\ RpIdle
  /\ SdIdle
  /\ values \in StatsInputs
  /\ StatsFresh

\* lines 543-566: one call
StatsCall ==
  /\ statsPc = "idle"
  /\ values0' = values
  /\ stats' = calculateStats(values)
  /\ values' = ValuesAfter(values)
  /\ statsPc' = "returned"
  /\ UNCHANGED otherThanStats

NextStats == StatsCall

SpecStats == InitStats /\ [][NextStats]_vars

StatsReturned == statsPc = "returned"

\* number of values of the call that are smaller than x / not greater than x
Below(x) == Cardinality({ k \in 1..Len(values0) : values0[k] < x })
UpTo(x) == Cardinality({ k \in 1..Len(values0) : values0[k] <= x })

\* C18: for a non-empty input min <= p50 <= p95 <= p99 <= max, min is the
\* smallest and max the largest input value, and the input sequence is
\* neither reordered nor modified.
C18_OrderedAndInputKept ==
  (StatsReturned /\ values0 # << >>) =>
    /\ stats.min <= stats.p50
    /\ stats.p50 <= stats.p95
    /\ stats.p95 <= stats.p99
    /\ stats.p99 <= stats.max
    /\ \E k \in 1..Len(values0) : values0[k] = stats.min
    /\ \E k \in 1..Len(values0) : values0[k] = stats.max
    /\ \A k \in 1..Len(values0) : stats.min <= values0[k] /\ values0[k] <= stats.max
    /\ values = values0

C18_Witness ==
  /\ StatsReturned
  /\ stats.min < stats.p50
  /\ stats.p50 < stats.p95
  /\ stats.p95 < stats.p99
  /\ stats.p99 < stats.max
  /\ values0[1] > values0[2]

\* the value of rank i (from 0) in ascending order: at most i input values
\* are smaller and more than i are not greater
HasRank(x, i) == Below(x) <= i /\ i < UpTo(x)

\* ceil(p / 100 * N) - 1 clamped to [0, N - 1]
NearestRank(p, n) ==
  LET c == IF (p * n) % 100 = 0 THEN (p * n) \div 100 ELSE (p * n) \div 100 + 1
  IN IF c - 1 < 0 THEN 0 ELSE IF c - 1 > n - 1 THEN n - 1 ELSE c - 1

\* C19: for a non-empty input of N values each of p50, p95, p99 is the element
\* of the ascending-sorted input at index ceil(p/100 * N) - 1 clamped to
\* [0, N-1]; [10, 20, ..., 100] gives p50 = 50 and p95 = 100.
C19_NearestRank ==
  (StatsReturned /\ values0 # << >>) =>
    /\ HasRank(stats.p50, NearestRank(50, Len(values0)))
    /\ HasRank(stats.p95, NearestRank(95, Len(values0)))
    /\ HasRank(stats.p99, NearestRank(99, Len(values0)))
    /\ values0 = [ k \in 1..10 |-> 10 * k ] => stats.p50 = 50 /\ stats.p95 = 100

C19_Witness ==
  /\ StatsReturned
  /\ values0 = [ k \in 1..10 |-> 10 * k ]
  /\ stats.p50 = 50
  /\ stats.p95 = 100

\* C20: the empty sequence gives seven fields equal to 0; a one-element
\* sequence [v] gives min = max = mean = p50 = p95 = p99 = v and stdDev = 0.
C20_EmptyAndSingle ==
  StatsReturned =>
    /\ values0 = << >> =>
         stats = [ min |-> 0, max |-> 0, mean |-> 0, p50 |-> 0, p95 |-> 0,
                   p99 |-> 0, stdDev |-> 0 ]
    /\ Len(values0) = 1 =>
         stats = [ min |-> values0[1], max |-> values0[1], mean |-> values0[1],
                   p50 |-> values0[1], p95 |-> values0[1], p99 |-> values0[1],
                   stdDev |-> 0 ]

C20_Witness ==
  /\ StatsReturned
  /\ values0 = << 100 >>
  /\ stats.mean = 100
  /\ stats.stdDev = 0

\* ======================================================================
\* Failure attribution: parseNodeFailures (lines 779-805)
\* ======================================================================
\* An error message is a sequence of words around at most one fragment
\* "TACo signing failed with errors: {...}".  The fragment lists the entries
\* its text shows and tells whether JSON.parse accepts it.
MaxErrors == 2

HexAddresses == { "0xABC", "0xDEF" }

\* the text "Node <id> did not respond before timeout"
NodeTimeout(id) == << "Node", id, "did not respond before", "timeout" >>

RequestTimeout == << "request", "timeout" >>
TimeoutExceeded == << "Timeout", "exceeded" >>

Entry(a, t) == [ address |-> a, text |-> t ]

\* the entries of a fragment: one or two keys, texts with "timeout", with
\* "Timeout" only, and with the node-timeout sentence itself
EntryLists ==
  { << Entry("0xABC", RequestTimeout) >>,
    << Entry("0xABC", TimeoutExceeded) >>,
    << Entry("0xDEF", NodeTimeout("0xDEF")) >>,
    << Entry("0xABC", RequestTimeout), Entry("0xDEF", TimeoutExceeded) >>,
    << Entry("0xDEF", TimeoutExceeded), Entry("0xABC", NodeTimeout("0xABC")) >>,
    << Entry("0xDEF", RequestTimeout), Entry("0xABC", RequestTimeout) >> }

JsonFragments ==
  { NoJson }
    \cup [ present : { TRUE }, parses : BOOLEAN, entries : EntryLists ]

ErrorMessages ==
  [ prefix : { << >>, NodeTimeout("0xABC"), NodeTimeout("ursula-7"),
               NodeTimeout("0xABC") \o NodeTimeout("0xABC") },
    json : JsonFragments,
    suffix : { << >>, NodeTimeout("0xDEF") } ]

\* the elements of seq at the positions of idx, in increasing position
Pick(seq, idx) ==
  [ n \in 1..Cardinality(idx) |->
      seq[CHOOSE i \in idx : Cardinality({ j \in idx : j <= i }) = n] ]

RECURSIVE EntryWords(_)
EntryWords(es) ==
  IF es = << >> THEN << >>
  ELSE << es[1].address, ":" >> \o es[1].text \o << "," >> \o EntryWords(Tail(es))

\* the text of a message, word by word
MessageWords(msg) ==
  msg.prefix
    \o (IF msg.json.present
          THEN << "TACo signing failed with errors:", "{" >>
                 \o EntryWords(msg.json.entries) \o << "}" >>
          ELSE << >>)
    \o msg.suffix

\* line 782: /Node\s+(0x[a-fA-F0-9]+)\s+did not respond before timeout/ at word i
NodeTimeoutAt(words, i) ==
  /\ i + 3 <= Len(words)
  /\ words[i] = "Node"
  /\ words[i + 1] \in HexAddresses
  /\ words[i + 2] = "did not respond before"
  /\ words[i + 3] = "timeout"

\* lines 782-784: the addresses captured by matchAll, in order
TimeoutMatches(words) ==
  Pick([ i \in 1..Len(words) |-> IF i < Len(words) THEN words[i + 1] ELSE "" ],
       { i \in 1..Len(words) : NodeTimeoutAt(words, i) })

HasKey(map, a) == \E k \in 1..Len(map) : map[k].address = a

\* lines 785, 794: nodeMap.get(addr) || { timeouts: 0, otherErrors: 0 }
GetOrZero(map, a) ==
  IF HasKey(map, a) THEN map[CHOOSE k \in 1..Len(map) : map[k].address = a]
  ELSE [ address |-> a, timeouts |-> 0, otherErrors |-> 0 ]

\* lines 787, 797: nodeMap.set keeps the position of a key the map has
MapSet(map, e) ==
  IF HasKey(map, e.address)
    THEN [ k \in 1..Len(map) |-> IF map[k].address = e.address THEN e ELSE map[k] ]
    ELSE Append(map, e)

\* variant: the match is counted as another error
CountTimeout_M(map, a) ==
  MapSet(map, [ GetOrZero(map, a) EXCEPT !.otherErrors = @ + 1 ])
\* lines 785-787, 795: existing.timeouts++
CountTimeout(map, a) ==
  MapSet(map, [ GetOrZero(map, a) EXCEPT !.timeouts = @ + 1 ])

\* line 796: existing.otherErrors++
CountOther(map, a) ==
  MapSet(map, [ GetOrZero(map, a) EXCEPT !.otherErrors = @ + 1 ])

RECURSIVE CountMatches(_, _)
\* lines 783-788
CountMatches(map, matches) ==
  IF matches = << >> THEN map
  ELSE CountMatches(CountTimeout(map, matches[1]), Tail(matches))

\* variant: the casing is ignored
IsTimeoutText_M(text) == \E i \in 1..Len(text) : text[i] \in { "timeout", "Timeout" }
\* line 795: String(msg).includes("timeout")
IsTimeoutText(text) == \E i \in 1..Len(text) : text[i] = "timeout"

RECURSIVE CountEntries(_, _)
\* lines 793-798
CountEntries(map, es) ==
  IF es = << >> THEN map
  ELSE CountEntries(IF IsTimeoutText(es[1].text)
                      THEN MapSet(map, [ GetOrZero(map, es[1].address) EXCEPT !.timeouts = @ + 1 ])
                      ELSE CountOther(map, es[1].address),
                    Tail(es))

\* variant: the exception of JSON.parse leaves the function
ParseOutcome_M(json) ==
  IF json.present /\ json.parses
    THEN [ threw |-> FALSE, entries |-> json.entries ]
    ELSE [ threw |-> json.present, entries |-> << >> ]
\* lines 789-800: match, JSON.parse inside try, catch {}
ParseOutcome(json) ==
  IF json.present /\ json.parses
    THEN [ threw |-> FALSE, entries |-> json.entries ]
    ELSE [ threw |-> FALSE, entries |-> << >> ]

\* variant: equal totals in reverse order
SortByTotalDesc_M(map) ==
  LET total(k) == map[k].timeouts + map[k].otherErrors
      pos(k) == Cardinality({ j \in 1..Len(map) :
                    total(j) > total(k) \/ (total(j) = total(k) /\ j >= k) })
  IN [ i \in 1..Len(map) |-> map[CHOOSE k \in 1..Len(map) : pos(k) = i] ]
\* line 804: sort((a, b) => b.timeouts + b.otherErrors - (a.timeouts + a.otherErrors)),
\* a stable sort
SortByTotalDesc(map) ==
  LET total(k) == map[k].timeouts + map[k].otherErrors
      pos(k) == Cardinality({ j \in 1..Len(map) :
                    total(j) > total(k) \/ (total(j) = total(k) /\ j <= k) })
  IN [ i \in 1..Len(map) |-> map[CHOOSE k \in 1..Len(map) : pos(k) = i] ]

\* lines 781-801: nodeMap after the iteration for msg
NodeMapAfter(map, msg) ==
  CountEntries(CountMatches(map, TimeoutMatches(MessageWords(msg))),
               ParseOutcome(msg.json).entries)

RECURSIVE NodeMapOf(_, _)
\* lines 780-801: the loop over errors
NodeMapOf(map, errors) ==
  IF errors = << >> THEN map
  ELSE NodeMapOf(NodeMapAfter(map, errors[1]), Tail(errors))

\* lines 779-805
parseNodeFailures(errors) == SortByTotalDesc(NodeMapOf(<< >>, errors))

\* the first occurrence of every element
FirstOccurrences(seq) ==
  Pick(seq, { i \in 1..Len(seq) : \A j \in 1..(i - 1) : seq[j] # seq[i] })

InitNf ==
  /\ SteadyIdle
  /\ ExecIdle
  /\ BurstIdle
  /\ SweepIdle
  /\ StatsIdle
  /\ NfIdle
  /\ PrIdle
  /\ RpIdle
  /\ SdIdle

\* lines 781-801: one iteration of the loop over errors
NfIteration(msg) ==
  LET explicit == TimeoutMatches(MessageWords(msg))
      parsed == ParseOutcome(msg.json)
  IN /\ nfPc = "loop"
     /\ nfProcessed < MaxErrors
     /\ nfProcessed' = nfProcessed + 1
     /\ nfError' = msg
     /\ nodeMap' = NodeMapAfter(nodeMap, msg)
     /\ nfFirstSeen' = FirstOccurrences(nfFirstSeen \o explicit
          \o [ k \in 1..Len(parsed.entries) |-> parsed.entries[k].address ])
     /\ nfPc' = IF parsed.threw THEN "threw" ELSE "loop"
     /\ UNCHANGED << nodeFailures, otherThanNf >>

\* lines 802-804
NfReturn ==
  /\ nfPc = "loop"
  /\ nodeFailures' = SortByTotalDesc(nodeMap)
  /\ nfPc' = "returned"
  /\ UNCHANGED << nfProcessed, nfError, nodeMap, nfFirstSeen, otherThanNf >>

NextNf ==
  \/ \E msg \in ErrorMessages : NfIteration(msg)
  \/ NfReturn

SpecNf == InitNf /\ [][NextNf]_vars

TimeoutsOf(map, a) == IF HasKey(map, a) THEN GetOrZero(map, a).timeouts ELSE 0
OthersOf(map, a) == IF HasKey(map, a) THEN GetOrZero(map, a).otherErrors ELSE 0

\* occurrences of "Node a did not respond before timeout" in a message
Occurrences(msg, a) ==
  LET w == MessageWords(msg)
  IN Cardinality({ i \in 1..Len(w) : NodeTimeoutAt(w, i) /\ w[i + 1] = a })

\* entries of the fragment of msg for a whose text has / has not "timeout"
EntriesWith(msg, a, timeout) ==
  Cardinality({ k \in 1..Len(msg.json.entries) :
    /\ msg.json.entries[k].address = a
    /\ (\E i \in 1..Len(msg.json.entries[k].text) :
          msg.json.entries[k].text[i] = "timeout") = timeout })

NfStep == nfProcessed' = nfProcessed + 1

\* C21: every occurrence of "Node <hex address> did not respond before timeout"
\* adds 1 to the timeouts of that address, and such occurrences alone add
\* nothing to otherErrors; the single message "Node 0xABC did not respond
\* before timeout" yields the one entry 0xABC with timeouts 1, otherErrors 0.
C21_ExplicitTimeoutCounted ==
  [][ /\ NfStep =>
           \A a \in HexAddresses \cup { "ursula-7" } :
             /\ TimeoutsOf(nodeMap', a) >= TimeoutsOf(nodeMap, a) + Occurrences(nfError', a)
             /\ ~nfError'.json.present =>
                  /\ TimeoutsOf(nodeMap', a) = TimeoutsOf(nodeMap, a) + Occurrences(nfError', a)
                  /\ OthersOf(nodeMap', a) = OthersOf(nodeMap, a)
      /\ ( /\ nfPc' = "returned"
           /\ nfProcessed = 1
           /\ nfError = [ prefix |-> NodeTimeout("0xABC"), json |-> NoJson, suffix |-> << >> ] )
           => nodeFailures' = << [ address |-> "0xABC", timeouts |-> 1, otherErrors |-> 0 ] >>
    ]_vars

C21_Witness ==
  /\ nfPc = "returned"
  /\ nfProcessed = 1
  /\ nfError = [ prefix |-> NodeTimeout("0xABC"), json |-> NoJson, suffix |-> << >> ]
  /\ nodeFailures = << [ address |-> "0xABC", timeouts |-> 1, otherErrors |-> 0 ] >>

\* C22: a message with explicit node-timeout matches and a structured object
\* contributes both: every entry of the object adds 1 to one counter of its
\* node, timeouts if its text contains "timeout" in that casing and
\* otherErrors if not, on top of the explicit matches.
C22_BothPatternsAdd ==
  [][ (NfStep /\ nfError'.json.present /\ nfError'.json.parses) =>
        \A a \in HexAddresses :
          /\ TimeoutsOf(nodeMap', a)
               = TimeoutsOf(nodeMap, a) + Occurrences(nfError', a)
                   + EntriesWith(nfError', a, TRUE)
          /\ OthersOf(nodeMap', a)
               = OthersOf(nodeMap, a) + EntriesWith(nfError', a, FALSE) ]_vars

C22_Witness ==
  /\ nfProcessed = 1
  /\ nfError.json.present
  /\ nfError.json.parses
  /\ nfError.prefix = NodeTimeout("0xABC")
  /\ TimeoutsOf(nodeMap, "0xABC") = 2
  /\ OthersOf(nodeMap, "0xDEF") = 1

C24_UnparseableIgnored ==
  [][ (NfStep /\ nfError'.json.present /\ ~nfError'.json.parses) =>
        /\ nfPc' = "loop"
        /\ \A a \in HexAddresses :
             /\ TimeoutsOf(nodeMap', a) = TimeoutsOf(nodeMap, a) + Occurrences(nfError', a)
             /\ OthersOf(nodeMap', a) = OthersOf(nodeMap, a)
        /\ \A k \in 1..Len(nodeMap) : nodeMap'[k].address = nodeMap[k].address ]_vars

C24_Witness ==
  /\ nfPc = "returned"
  /\ nfProcessed = 2
  /\ nfError.json.present
  /\ ~nfError.json.parses
  /\ Occurrences(nfError, "0xDEF") = 2
  /\ nodeFailures = << [ address |-> "0xDEF", timeouts |-> 2, otherErrors |-> 0 ],
                       [ address |-> "0xABC", timeouts |-> 0, otherErrors |-> 1 ] >>

\* ======================================================================
\* Run summary: printResults (lines 807-880)
\* ======================================================================
MaxResults == 3

\* "Unknown error" (line 823)
UnknownError == [ prefix |-> << "Unknown error" >>, json |-> NoJson, suffix |-> << >> ]

\* error texts of failed requests: none, the empty string, a timeout of the
\* executor, a node timeout, a structured report
FailureErrors ==
  { None, Some(NoMessage),
    Some([ prefix |-> << "[timeout]" >>, json |-> NoJson, suffix |-> << >> ]),
    Some([ prefix |-> << "[taco-signing]" >> \o NodeTimeout("0xABC"), json |-> NoJson,
           suffix |-> << >> ]),
    Some([ prefix |-> << "[taco-signing]" >>,
           json |-> [ present |-> TRUE, parses |-> TRUE,
                      entries |-> << Entry("0xABC", RequestTimeout),
                                     Entry("0xDEF", TimeoutExceeded) >> ],
           suffix |-> << >> ]) }

\* the RequestResults of lines 519-536: a success has its signing time and
\* no error, a failure has neither signing time nor, possibly, an error
RequestResults ==
  [ success : { TRUE }, duration : { 100, 300 }, error : { None },
    tacoSigningTimeMs : { Some(80) } ]
    \cup [ success : { FALSE }, duration : { 200 }, error : FailureErrors,
           tacoSigningTimeMs : { None } ]

PrInputs == UNION { [1..n -> RequestResults] : n \in 0..MaxResults }

\* filter((r) => r.success) and filter((r) => !r.success), lines 809-810
SuccessResults(rs) == SelectSeq(rs, LAMBDA r : r.success)
FailedResults(rs) == SelectSeq(rs, LAMBDA r : ~r.success)

DurationsOf(rs) == [ k \in 1..Len(rs) |-> rs[k].duration ]

\* lines 816-819: filter on tacoSigningTimeMs !== undefined, then map
TacoTimesOf(rs) ==
  LET timed == SelectSeq(rs, LAMBDA r : r.tacoSigningTimeMs.has)
  IN [ k \in 1..Len(timed) |-> timed[k].tacoSigningTimeMs.val ]

\* variant: the statistics of no value instead of null
StatsOrNull_M(vs) == [ isNull |-> FALSE, stats |-> calculateStats(vs) ]
\* lines 813-821: x.length > 0 ? calculateStats(x) : null
StatsOrNull(vs) ==
  IF Len(vs) > 0 THEN [ isNull |-> FALSE, stats |-> calculateStats(vs) ]
  ELSE NullStats

\* line 823: r.error || "Unknown error" (undefined and "" are falsy)
ErrorOrUnknown(e) == IF e.has /\ e.val # NoMessage THEN e.val ELSE UnknownError

AllErrors(rs) ==
  [ k \in 1..Len(FailedResults(rs)) |-> ErrorOrUnknown(FailedResults(rs)[k].error) ]

\* variant: every error gets an entry of its own
CountError_M(counts, err) == Append(counts, [ message |-> err, count |-> 1 ])
\* line 826: errorCountMap.set(err, (errorCountMap.get(err) || 0) + 1)
CountError(counts, err) ==
  IF \E k \in 1..Len(counts) : counts[k].message = err
    THEN [ k \in 1..Len(counts) |->
             IF counts[k].message = err
               THEN [ counts[k] EXCEPT !.count = @ + 1 ] ELSE counts[k] ]
    ELSE Append(counts, [ message |-> err, count |-> 1 ])

RECURSIVE ErrorsWithCounts(_, _)
\* lines 825-827
ErrorsWithCounts(counts, errs) ==
  IF errs = << >> THEN counts
  ELSE ErrorsWithCounts(CountError(counts, errs[1]), Tail(errs))

\* lines 808, 867: Math.round(totalDuration * 10) / 10 in tenths of a second;
\* every request of the input starts at 0 and ends after its duration
DurationTenths(rs) == (2 * rs[Len(rs)].duration + 100) \div 200

\* lines 809-879 (label is never passed by the callers)
PrintedRunResult(rs, mode, rate) ==
  [ mode |-> mode, targetRate |-> rate, duration |-> DurationTenths(rs),
    label |-> None,
    requests |-> [ total |-> Len(rs), success |-> Len(SuccessResults(rs)),
                   failed |-> Len(FailedResults(rs)) ],
    latency |-> calculateStats(DurationsOf(rs)),
    successLatency |-> StatsOrNull(DurationsOf(SuccessResults(rs))),
    failureLatency |-> StatsOrNull(DurationsOf(FailedResults(rs))),
    tacoSigningTime |-> StatsOrNull(TacoTimesOf(rs)),
    successTacoSigningTime |-> StatsOrNull(TacoTimesOf(SuccessResults(rs))),
    failureTacoSigningTime |-> StatsOrNull(TacoTimesOf(FailedResults(rs))),
    nodeFailures |-> parseNodeFailures(AllErrors(rs)),
    errors |-> ErrorsWithCounts(<< >>, AllErrors(rs)) ]

InitPr ==
  /\ SteadyIdle
  /\ ExecIdle
  /\ BurstIdle
  /\ SweepIdle
  /\ StatsIdle
  /\ NfIdle
  /\ RpIdle
  /\ SdIdle
  /\ prResults \in PrInputs
  /\ prMode \in { "steady", "burst" }
  /\ PrFresh

\* lines 807-880: one call; line 808 throws on an empty array
PrintResults ==
  /\ prPc = "idle"
  /\ IF PrintResultsThrows(prResults)
       THEN /\ prPc' = "threw"
            /\ UNCHANGED runResult
       ELSE /\ prPc' = "returned"
            /\ runResult' = PrintedRunResult(prResults, prMode, 1)
  /\ UNCHANGED << prResults, prMode, otherThanPr >>

NextPr == PrintResults

SpecPr == InitPr /\ [][NextPr]_vars

\* C25: for a non-empty outcome sequence requests.total = success + failed
\* = number of outcomes, successLatency is null exactly when success = 0 and
\* failureLatency is null exactly when failed = 0.
C25_CountsAndNullStats ==
  (prPc # "idle" /\ prResults # << >>) =>
    /\ prPc = "returned"
    /\ runResult.requests.total = Len(prResults)
    /\ runResult.requests.total = runResult.requests.success + runResult.requests.failed
    /\ runResult.requests.success
         = Cardinality({ k \in 1..Len(prResults) : prResults[k].success })
    /\ runResult.successLatency.isNull <=> runResult.requests.success = 0
    /\ runResult.failureLatency.isNull <=> runResult.requests.failed = 0

C25_Witness ==
  /\ prPc = "returned"
  /\ runResult.requests.total = 3
  /\ runResult.requests.failed = 3
  /\ runResult.successLatency.isNull
  /\ ~runResult.failureLatency.isNull

\* the message under which the failure at position k is counted
CountedAs(k) ==
  IF prResults[k].error.has /\ prResults[k].error.val # NoMessage
    THEN prResults[k].error.val ELSE UnknownError

\* C26: the error histogram has one entry per distinct failure message (a
\* failure without message under "Unknown error"), every count is at least 1
\* and is the number of failures with that message, and the counts sum to
\* requests.failed.
C26_ErrorHistogram ==
  prPc = "returned" =>
    LET errs == runResult.errors
        failures == { k \in 1..Len(prResults) : ~prResults[k].success }
    IN /\ \A i, j \in 1..Len(errs) : i # j => errs[i].message # errs[j].message
       /\ \A i \in 1..Len(errs) :
            /\ errs[i].count >= 1
            /\ errs[i].count = Cardinality({ k \in failures : CountedAs(k) = errs[i].message })
       /\ \A k \in failures : \E i \in 1..Len(errs) : errs[i].message = CountedAs(k)
       /\ Sum([ i \in 1..Len(errs) |-> errs[i].count ]) = runResult.requests.failed

C26_Witness ==
  /\ prPc = "returned"
  /\ runResult.requests.failed = 3
  /\ Len(runResult.errors) = 2
  /\ runResult.errors[1].message = UnknownError
  /\ runResult.errors[1].count = 2
  /\ prResults[1].error = None
  /\ prResults[3].error = Some(NoMessage)

\* ======================================================================
\* Report data: generateReport (src/src/types.ts lines 275-406)
\* ======================================================================
MaxSteadyRuns == 2
MaxBurstRuns == 1
MaxReports == 2

NodeFailure(a, t, o) == [ address |-> a, timeouts |-> t, otherErrors |-> o ]

\* nodeFailures of a summary, as parseNodeFailures returns them
NodeFailureLists ==
  { << >>, << NodeFailure("0xABC", 1, 0) >>,
    << NodeFailure("0xDEF", 2, 1), NodeFailure("0xABC", 0, 1) >> }

TimelineRequest(i, t, dur, ok, n) ==
  [ index |-> i, elapsedSec |-> t, duration |-> dur, success |-> ok,
    error |-> IF ok THEN None ELSE Some("[timeout]"), inFlight |-> n ]

\* timeline of a summary: absent, empty, or two entries in completion order
Timelines ==
  { [ present |-> FALSE, entries |-> << >> ],
    [ present |-> TRUE, entries |-> << >> ],
    [ present |-> TRUE,
      entries |-> << TimelineRequest(1, 1, 300, TRUE, 1),
                     TimelineRequest(0, 2, 2000, FALSE, 0) >> ] }

\* the fields of a RunResult that generateReport's chart data reads
SteadySummaries ==
  [ mode : { "steady" }, targetRate : { 1 },
    requests : { [ total |-> 2, success |-> 1, failed |-> 1 ] },
    p50 : { 300 }, p95 : { 2000 }, p99 : { 2000 },
    stoppedEarly : { None },
    nodeFailures : NodeFailureLists, timeline : Timelines ]

BurstSummaries ==
  [ mode : { "burst" }, targetRate : { 3 },
    requests : { [ total |-> 3, success |-> 2, failed |-> 1 ] },
    p50 : { 300 }, p95 : { 2000 }, p99 : { 2000 },
    stoppedEarly : { None },
    nodeFailures : NodeFailureLists, timeline : { [ present |-> FALSE, entries |-> << >> ] } ]

TestDatas ==
  [ steadyResults : UNION { [1..n -> SteadySummaries] : n \in 0..MaxSteadyRuns },
    burstResults : UNION { [1..n -> BurstSummaries] : n \in 0..MaxBurstRuns } ]

\* line 277
AllResults(data) == data.steadyResults \o data.burstResults

\* variant: the first steady summary, however many there are
IsTimeline_M(data) ==
  /\ Len(data.steadyResults) >= 1
  /\ data.steadyResults[1].timeline.present
  /\ Len(data.steadyResults[1].timeline.entries) > 0
\* line 282
IsTimeline(data) ==
  /\ Len(data.steadyResults) = 1
  /\ data.steadyResults[1].timeline.present
  /\ Len(data.steadyResults[1].timeline.entries) > 0

\* line 283
IsSweep(data) == Len(data.steadyResults) > 1 \/ Len(data.burstResults) > 1

NoSeries == [ present |-> FALSE ]

\* lines 312-318: the points of one bucket. Durations stay in ms, and the
\* error texts of Timelines are shorter than the 80 characters line 316
\* rewrites, so the hover text is the index and the error.
Bucket(tl, ok) ==
  LET part == SelectSeq(tl, LAMBDA t : t.success = ok)
  IN [ x |-> [ k \in 1..Len(part) |-> part[k].elapsedSec ],
       y |-> [ k \in 1..Len(part) |-> part[k].duration ],
       text |-> [ k \in 1..Len(part) |->
                    [ index |-> part[k].index, error |-> part[k].error ] ] ]

\* lines 307-318
TimelineSeries(tl) ==
  [ present |-> TRUE, success |-> Bucket(tl, TRUE), fail |-> Bucket(tl, FALSE),
    inFlight |-> [ x |-> << >>, y |-> << >> ] ]

\* lines 319-322
InFlightSeries(tl) ==
  [ present |-> TRUE, x |-> [ k \in 1..Len(tl) |-> tl[k].elapsedSec ],
    y |-> [ k \in 1..Len(tl) |-> tl[k].inFlight ] ]

\* lines 324-326
LatencyHist(tl) ==
  [ present |-> TRUE, success |-> Bucket(tl, TRUE).y, fail |-> Bucket(tl, FALSE).y ]

\* lines 328-332
InFlightVsLatency(tl) ==
  [ present |-> TRUE, x |-> [ k \in 1..Len(tl) |-> tl[k].inFlight ],
    y |-> [ k \in 1..Len(tl) |-> tl[k].duration ],
    success |-> [ k \in 1..Len(tl) |-> tl[k].success ] ]

\* lines 340, 350: success / total * 100 as a fraction, 0 without requests
SuccessPct(r) ==
  IF r.requests.total > 0
    THEN [ num |-> 100 * r.requests.success, den |-> r.requests.total ]
    ELSE [ num |-> 0, den |-> 1 ]

\* lines 337-347
SteadySweep(rs) ==
  [ present |-> TRUE,
    points |-> [ k \in 1..Len(rs) |->
      [ rate |-> rs[k].targetRate, successPct |-> SuccessPct(rs[k]),
        p50 |-> rs[k].p50, p95 |-> rs[k].p95, p99 |-> rs[k].p99,
        stoppedEarly |-> rs[k].stoppedEarly.has /\ rs[k].stoppedEarly.val = 1 ] ] ]

\* lines 348-353
BurstSweep(rs) ==
  [ present |-> TRUE,
    points |-> [ k \in 1..Len(rs) |->
      [ size |-> rs[k].targetRate, successPct |-> SuccessPct(rs[k]),
        p50 |-> rs[k].p50, p95 |-> rs[k].p95 ] ] ]

RECURSIVE NodeEntries(_)
\* lines 358-359: every nf of every result, in iteration order
NodeEntries(all) ==
  IF all = << >> THEN << >> ELSE all[1].nodeFailures \o NodeEntries(Tail(all))

\* variant: a later summary's counts replace the earlier ones
AddNodeFailure_M(map, nf) ==
  MapSet(map, [ GetOrZero(map, nf.address) EXCEPT
                  !.timeouts = nf.timeouts, !.otherErrors = nf.otherErrors ])
\* lines 360-363
AddNodeFailure(map, nf) ==
  MapSet(map, [ GetOrZero(map, nf.address) EXCEPT
                  !.timeouts = @ + nf.timeouts, !.otherErrors = @ + nf.otherErrors ])

RECURSIVE AggregateNodes(_, _)
\* lines 357-365
AggregateNodes(map, nfs) ==
  IF nfs = << >> THEN map
  ELSE AggregateNodes(AddNodeFailure(map, nfs[1]), Tail(nfs))

\* lines 366-374
NodeFailureSeries(all) ==
  LET nodes == AggregateNodes(<< >>, NodeEntries(all))
      entries == SortByTotalDesc(nodes)
  IN IF Len(nodes) > 0
       THEN [ present |-> TRUE,
              fullLabels |-> [ k \in 1..Len(entries) |-> entries[k].address ],
              timeouts |-> [ k \in 1..Len(entries) |-> entries[k].timeouts ],
              otherErrors |-> [ k \in 1..Len(entries) |-> entries[k].otherErrors ] ]
       ELSE [ present |-> FALSE, fullLabels |-> << >>, timeouts |-> << >>,
              otherErrors |-> << >> ]

\* lines 302-374
ChartData(data) ==
  LET tl == data.steadyResults[1].timeline.entries
  IN [ timeline |-> IF IsTimeline(data) THEN TimelineSeries(tl) ELSE NoSeries,
       timelineInFlight |-> IF IsTimeline(data) THEN InFlightSeries(tl) ELSE NoSeries,
       latencyHist |-> IF IsTimeline(data) THEN LatencyHist(tl) ELSE NoSeries,
       inFlightVsLatency |-> IF IsTimeline(data) THEN InFlightVsLatency(tl) ELSE NoSeries,
       steadySweep |-> IF IsSweep(data) THEN SteadySweep(data.steadyResults) ELSE NoSeries,
       burstSweep |-> IF IsSweep(data) THEN BurstSweep(data.burstResults) ELSE NoSeries,
       nodeFailures |-> NodeFailureSeries(AllResults(data)) ]

\* the nf at position k of result i is the first one of its address
FirstOfAddress(all, i, k) ==
  \A i2 \in 1..i : \A k2 \in 1..Len(all[i2].nodeFailures) :
    (i2 < i \/ k2 < k) =>
      all[i2].nodeFailures[k2].address # all[i].nodeFailures[k].address

\* variant: `nodeMap.get(nf.address) || nf` puts the first nf object of an
\* address in the map, and the sums are accumulated into that input object
DataAfterReport_M(data) ==
  LET all == AllResults(data)
      sums == AggregateNodes(<< >>, NodeEntries(all))
      after == [ i \in 1..Len(all) |->
                 [ all[i] EXCEPT !.nodeFailures =
                     [ k \in 1..Len(all[i].nodeFailures) |->
                         IF FirstOfAddress(all, i, k)
                           THEN GetOrZero(sums, all[i].nodeFailures[k].address)
                           ELSE all[i].nodeFailures[k] ] ] ]
  IN [ steadyResults |-> SubSeq(after, 1, Len(data.steadyResults)),
       burstResults |-> SubSeq(after, Len(data.steadyResults) + 1, Len(all)) ]
\* lines 275-406: every array and object written to is created by the call
\* (line 360: a new { timeouts: 0, otherErrors: 0 }, line 367: Array.from)
DataAfterReport(data) == data

InitRp ==
  /\ SteadyIdle
  /\ ExecIdle
  /\ BurstIdle
  /\ SweepIdle
  /\ StatsIdle
  /\ NfIdle
  /\ PrIdle
  /\ SdIdle
  /\ reportData \in TestDatas
  /\ reportData0 = reportData
  /\ RpFresh

\* lines 275-406: one call
GenerateReport ==
  /\ reportRuns < MaxReports
  /\ reportRuns' = reportRuns + 1
  /\ charts' = Append(charts, ChartData(reportData))
  /\ reportData' = DataAfterReport(reportData)
  /\ UNCHANGED << reportData0, otherThanRp >>

NextRp == GenerateReport

SpecRp == InitRp /\ [][NextRp]_vars

\* addresses with a node failure in some summary of the data
ReportAddresses ==
  { a \in HexAddresses :
      \E i \in 1..Len(AllResults(reportData0)) :
        \E k \in 1..Len(AllResults(reportData0)[i].nodeFailures) :
          AllResults(reportData0)[i].nodeFailures[k].address = a }

\* sum over all summaries of the timeouts (other errors) of address a
TotalTimeouts(a) ==
  LET nfs == NodeEntries(AllResults(reportData0))
  IN Sum([ k \in 1..Len(nfs) |-> IF nfs[k].address = a THEN nfs[k].timeouts ELSE 0 ])
TotalOthers(a) ==
  LET nfs == NodeEntries(AllResults(reportData0))
  IN Sum([ k \in 1..Len(nfs) |-> IF nfs[k].address = a THEN nfs[k].otherErrors ELSE 0 ])

\* C27: the node-failure series has one bar per distinct address of the
\* nodeFailures of the steady and burst summaries, with the sums of the
\* address's timeouts and otherErrors over all summaries, ordered by total
\* descending; it is omitted when no summary has a node failure.
C27_NodeFailureSeries ==
  reportRuns >= 1 =>
    LET nf == charts[1].nodeFailures
    IN /\ nf.present <=> ReportAddresses # {}
       /\ Len(nf.fullLabels) = Cardinality(ReportAddresses)
       /\ { nf.fullLabels[i] : i \in 1..Len(nf.fullLabels) } = ReportAddresses
       /\ \A i \in 1..Len(nf.fullLabels) :
            /\ nf.timeouts[i] = TotalTimeouts(nf.fullLabels[i])
            /\ nf.otherErrors[i] = TotalOthers(nf.fullLabels[i])
       /\ \A i, j \in 1..Len(nf.fullLabels) :
            i < j => nf.timeouts[i] + nf.otherErrors[i] >= nf.timeouts[j] + nf.otherErrors[j]

C27_Witness ==
  /\ reportRuns >= 1
  /\ Len(reportData0.steadyResults) = 2
  /\ Len(reportData0.burstResults) = 1
  /\ charts[1].nodeFailures.present
  /\ charts[1].nodeFailures.fullLabels = << "0xABC", "0xDEF" >>
  /\ charts[1].nodeFailures.timeouts = << 2, 2 >>
  /\ charts[1].nodeFailures.otherErrors = << 1, 1 >>

\* C28: the timeline, in-flight, latency-histogram and in-flight-vs-latency
\* series are produced exactly when the data holds exactly one steady summary
\* with a non-empty timeline; otherwise they are omitted and the call returns.
C28_TimelineSeriesOnlyForOneSteadyRun ==
  /\ Len(charts) = reportRuns
  /\ reportRuns >= 1 =>
       LET c == charts[1]
           one == /\ Len(reportData0.steadyResults) = 1
                  /\ reportData0.steadyResults[1].timeline.present
                  /\ reportData0.steadyResults[1].timeline.entries # << >>
       IN /\ c.timeline.present <=> one
          /\ c.timelineInFlight.present <=> one
          /\ c.latencyHist.present <=> one
          /\ c.inFlightVsLatency.present <=> one
          /\ one => /\ Len(c.timelineInFlight.x)
                         = Len(reportData0.steadyResults[1].timeline.entries)
                    /\ Len(c.timeline.success.x) + Len(c.timeline.fail.x)
                         = Len(reportData0.steadyResults[1].timeline.entries)

C28_Witness ==
  /\ reportRuns >= 1
  /\ Len(reportData0.steadyResults) = 1
  /\ Len(reportData0.burstResults) = 1
  /\ charts[1].timeline.present
  /\ charts[1].latencyHist.success = << 300 >>
  /\ charts[1].latencyHist.fail = << 2000 >>

MaxSaved == 2

\* JavaScript values: scalars carry val or text, objects carry their
\* properties as << key, value >> pairs in insertion order, arrays their items
JsNull == [ kind |-> "null", val |-> 0, text |-> "", members |-> << >> ]
JsNaN == [ kind |-> "NaN", val |-> 0, text |-> "", members |-> << >> ]
JsNumber(n) == [ kind |-> "number", val |-> n, text |-> "", members |-> << >> ]
JsString(s) == [ kind |-> "string", val |-> 0, text |-> s, members |-> << >> ]
JsBoolean(b) == [ kind |-> "boolean", val |-> IF b THEN 1 ELSE 0, text |-> "", members |-> << >> ]
JsObject(props) == [ kind |-> "object", val |-> 0, text |-> "", members |-> props ]
JsArray(items) == [ kind |-> "array", val |-> 0, text |-> "", members |-> items ]

\* JSON text, by its grammar: literals, objects and arrays
JsonNull == [ json |-> "null", val |-> 0, text |-> "", members |-> << >> ]
JsonNumber(n) == [ json |-> "number", val |-> n, text |-> "", members |-> << >> ]
JsonString(s) == [ json |-> "string", val |-> 0, text |-> s, members |-> << >> ]
JsonTrue == [ json |-> "true", val |-> 0, text |-> "", members |-> << >> ]
JsonFalse == [ json |-> "false", val |-> 0, text |-> "", members |-> << >> ]
JsonObject(props) == [ json |-> "object", val |-> 0, text |-> "", members |-> props ]
JsonArray(items) == [ json |-> "array", val |-> 0, text |-> "", members |-> items ]

\* obj[key]: undefined when the object has no such property
Get(obj, key) ==
  IF \E i \in 1..Len(obj.members) : obj.members[i][1] = key
    THEN obj.members[CHOOSE i \in 1..Len(obj.members) : obj.members[i][1] = key][2]
    ELSE JsUndefined

Keys(obj) == { obj.members[i][1] : i \in 1..Len(obj.members) }

\* Stats (src/src/types.ts lines 95-103), as calculateStats returns it
StatsObject(n) ==
  JsObject(<< << "min", JsNumber(n) >>, << "max", JsNumber(n) >>,
              << "mean", JsNumber(n) >>, << "p50", JsNumber(n) >>,
              << "p95", JsNumber(n) >>, << "p99", JsNumber(n) >>,
              << "stdDev", JsNumber(0) >> >>)

\* lines 629-636: a timeline entry; error is result.error (undefined for a
\* success), tacoSigningTimeMs is null when the request has none
SavedTimelineEntry(i, ok) ==
  JsObject(<< << "index", JsNumber(i) >>,
              << "elapsedSec", JsNumber(i + 1) >>,
              << "duration", JsNumber(IF ok THEN 300 ELSE 2000) >>,
              << "success", JsBoolean(ok) >>,
              << "tacoSigningTimeMs", IF ok THEN JsNumber(250) ELSE JsNull >>,
              << "error", IF ok THEN JsUndefined ELSE JsString("[timeout]") >>,
              << "inFlight", JsNumber(0) >> >>)

\* lines 865-879: the object printResults returns for n outcomes, all
\* successes (ok = n) or all failures (ok = 0). label is the parameter no
\* caller passes; the statistics of an empty split are null.
PrintedSummary(mode, rate, n, ok) ==
  << << "mode", JsString(mode) >>,
     << "targetRate", rate >>,
     << "duration", JsNumber(2) >>,
     << "label", JsUndefined >>,
     << "requests", JsObject(<< << "total", JsNumber(n) >>,
                               << "success", JsNumber(ok) >>,
                               << "failed", JsNumber(n - ok) >> >>) >>,
     << "latency", StatsObject(IF ok > 0 THEN 300 ELSE 2000) >>,
     << "successLatency", IF ok > 0 THEN StatsObject(300) ELSE JsNull >>,
     << "failureLatency", IF ok > 0 THEN JsNull ELSE StatsObject(2000) >>,
     << "tacoSigningTime", IF ok > 0 THEN StatsObject(250) ELSE JsNull >>,
     << "successTacoSigningTime", IF ok > 0 THEN StatsObject(250) ELSE JsNull >>,
     << "failureTacoSigningTime", JsNull >>,
     << "nodeFailures", JsArray(<< >>) >>,
     << "errors",
        JsArray(IF ok > 0 THEN << >>
                ELSE << JsObject(<< << "message", JsString("[timeout]") >>,
                                    << "count", JsNumber(n) >> >>) >>) >> >>

\* --rate as parseArgs and loadConfig hand it on (lines 958, 1009):
\* parseFloat of the option's text, NaN for text that is no number
TargetRates == { JsNumber(1), JsNaN }

\* lines 1116-1122: a steady level of a sweep
SweepLevelSummaries ==
  { JsObject(PrintedSummary("steady", rate, 1, ok) \o extra) :
      rate \in TargetRates, ok \in {0, 1},
      extra \in { << >>, << << "stoppedEarly", JsBoolean(TRUE) >> >> } }

\* lines 1139-1147: the run of steady mode, with one timeline entry per
\* outcome
SteadyRunSummaries ==
  { JsObject(PrintedSummary("steady", rate, n, IF allOk THEN n ELSE 0) \o
             << << "timeline",
                   JsArray([ i \in 1..n |-> SavedTimelineEntry(i - 1, allOk) ]) >>,
                << "stopReason", JsString("completed") >>,
                << "consecutiveFailuresAtStop", JsNumber(IF allOk THEN 0 ELSE n) >> >>) :
      rate \in TargetRates, n \in {1, 2}, allOk \in BOOLEAN }

\* lines 1132, 1136: a burst run (a burst size that is no number makes no
\* request, and printResults throws before a summary exists)
BurstRunSummaries ==
  { JsObject(PrintedSummary("burst", JsNumber(3), 3, ok)) : ok \in {0, 3} }

\* lines 1151-1164
SavedTestDatas ==
  { JsObject(<< << "version", JsNumber(1) >>,
                << "steadyResults", JsArray(sr) >>,
                << "burstResults", JsArray(br) >> >>) :
      sr \in UNION { [1..n -> SweepLevelSummaries \cup SteadyRunSummaries] : n \in 0..MaxSaved },
      br \in UNION { [1..n -> BurstRunSummaries] : n \in 0..MaxSaved } }

RECURSIVE Stringify(_)
\* line 910, JSON.stringify: a property whose value is undefined is left
\* out, an undefined array item and a number that is not finite become null
Stringify(v) ==
  CASE v.kind = "number" -> JsonNumber(v.val)
    [] v.kind = "NaN" -> JsonNull
    [] v.kind = "null" -> JsonNull
    [] v.kind = "string" -> JsonString(v.text)
    [] v.kind = "boolean" -> IF v.val = 1 THEN JsonTrue ELSE JsonFalse
    [] v.kind = "object" ->
         LET kept == SelectSeq(v.members, LAMBDA m : m[2].kind # "undefined")
         IN JsonObject([ i \in 1..Len(kept) |-> << kept[i][1], Stringify(kept[i][2]) >> ])
    [] v.kind = "array" ->
         JsonArray([ i \in 1..Len(v.members) |->
                       IF v.members[i].kind = "undefined" THEN JsonNull
                       ELSE Stringify(v.members[i]) ])

RECURSIVE Parse(_)
\* line 915, JSON.parse
Parse(doc) ==
  CASE doc.json = "null" -> JsNull
    [] doc.json = "number" -> JsNumber(doc.val)
    [] doc.json = "string" -> JsString(doc.text)
    [] doc.json = "true" -> JsBoolean(TRUE)
    [] doc.json = "false" -> JsBoolean(FALSE)
    [] doc.json = "object" ->
         JsObject([ i \in 1..Len(doc.members) |->
                      << doc.members[i][1], Parse(doc.members[i][2]) >> ])
    [] doc.json = "array" ->
         JsArray([ i \in 1..Len(doc.members) |-> Parse(doc.members[i]) ])

InitSd ==
  /\ SteadyIdle
  /\ ExecIdle
  /\ BurstIdle
  /\ SweepIdle
  /\ StatsIdle
  /\ NfIdle
  /\ PrIdle
  /\ RpIdle
  /\ sdData \in SavedTestDatas
  /\ sdFile = NoFile
  /\ sdLoaded = JsUndefined
  /\ sdPc = "start"

\* lines 907-912
SaveTestData ==
  /\ sdPc = "start"
  /\ sdFile' = Stringify(sdData)
  /\ sdPc' = "saved"
  /\ UNCHANGED << sdData, sdLoaded, otherThanSd >>

\* lines 914-916
LoadTestData ==
  /\ sdPc = "saved"
  /\ sdLoaded' = Parse(sdFile)
  /\ sdPc' = "loaded"
  /\ UNCHANGED << sdData, sdFile, otherThanSd >>

NextSd == SaveTestData \/ LoadTestData

SpecSd == InitSd /\ [][NextSd]_vars

RECURSIVE SameValue(_, _)
\* a and b are equal field for field: the same kind of value, the same
\* scalar, the same value under every property name either of them has,
\* the same items
SameValue(a, b) ==
  /\ a.kind = b.kind
  /\ a.val = b.val
  /\ a.text = b.text
  /\ a.kind = "object" =>
       \A k \in Keys(a) \cup Keys(b) : SameValue(Get(a, k), Get(b, k))
  /\ a.kind = "array" =>
       /\ Len(a.members) = Len(b.members)
       /\ \A i \in 1..Len(a.members) : SameValue(a.members[i], b.members[i])

\* C30: the RunSummaries read back by loadTestData from the file written by
\* saveTestData are equal field for field to the ones saved, for every
\* RunSummary the runner can produce.
C30_RoundTrip ==
  sdPc = "loaded" =>
    /\ SameValue(Get(sdData, "steadyResults"), Get(sdLoaded, "steadyResults"))
    /\ SameValue(Get(sdData, "burstResults"), Get(sdLoaded, "burstResults"))

\* the part of C30 that holds: every field except a targetRate that is no
\* number comes back as saved (absent label, null statistics and timeline
\* entries without error included)
C30_RoundTripOfFiniteRates ==
  sdPc = "loaded" =>
    /\ SameValue(Get(sdData, "burstResults"), Get(sdLoaded, "burstResults"))
    /\ Len(Get(sdLoaded, "steadyResults").members)
         = Len(Get(sdData, "steadyResults").members)
    /\ \A i \in 1..Len(Get(sdData, "steadyResults").members) :
         LET saved == Get(sdData, "steadyResults").members[i]
             loaded == Get(sdLoaded, "steadyResults").members[i]
         IN /\ \A k \in (Keys(saved) \cup Keys(loaded)) \ { "targetRate" } :
                 SameValue(Get(saved, k), Get(loaded, k))
            /\ Get(saved, "targetRate").kind = "number"
                 => SameValue(saved, loaded)
            /\ Get(saved, "targetRate").kind = "NaN"
                 => Get(loaded, "targetRate") = JsNull

\* ======================================================================
\* Steady runs: stop conditions, the failure counter, liveness
\* (lines 587-710)
\* ======================================================================

\* C31: with maxDuration or maxConsecutiveFailures configured the run is
\* unbounded: the loop is left only on a stop signal (never because duration
\* or requestCount is used up) and the returned stopReason is never
\* "completed"; with neither configured the returned stopReason is
\* "completed" and consecutiveFailuresAtStop is absent.
C31_StopConditionsUnbound ==
  /\ [] (ret.has =>
           IF HasStopConditions(options)
             THEN ret.stopReason # "completed"
             ELSE ret.stopReason = "completed" /\ ret.consecutiveFailuresAtStop = None)
  /\ [][ (HasStopConditions(options) /\ pc = "loop" /\ pc' = "after")
           => (shouldStop \/ (DurationElapsed(options, now) /\ stopReason' = "duration")) ]_vars

C31_Witness ==
  /\ ret.has
  /\ ret.stopReason = "consecutive-failures"
  /\ options.requestCount = Some(2)
  /\ options.duration = Some(1)
  /\ nextRequestIndex = 3

\* C34: a run returned with "consecutive-failures" carries
\* consecutiveFailuresAtStop >= maxConsecutiveFailures and its last
\* maxConsecutiveFailures outcomes, in completion order, are failures; with
\* another stopReason consecutiveFailuresAtStop is absent.
C34_CounterAtStop ==
  ret.has =>
    IF ret.stopReason = "consecutive-failures"
      THEN /\ options.maxConsecutiveFailures.has
           /\ ret.consecutiveFailuresAtStop.has
           /\ ret.consecutiveFailuresAtStop.val >= options.maxConsecutiveFailures.val
           /\ Len(results) >= options.maxConsecutiveFailures.val
           /\ \A k \in 1..Len(results) :
                k > Len(results) - options.maxConsecutiveFailures.val => ~results[k].success
      ELSE ret.consecutiveFailuresAtStop = None

C34_Witness ==
  /\ ret.has
  /\ ret.stopReason = "consecutive-failures"
  /\ options.maxConsecutiveFailures = Some(2)
  /\ Len(results) = 3
  /\ results[1].success
  /\ results[1].index > results[2].index

\* length of the longest suffix of rs made of failed outcomes only
FailedSuffix(rs) ==
  Cardinality({ k \in 1..Len(rs) : \A l \in k..Len(rs) : ~rs[l].success })

\* C35: in every state of a steady run the consecutive-failure counter is the
\* length of the longest all-failed suffix of results (completion order), and
\* results, timeline and completedCount have the same size.
C35_CounterIsFailedSuffix ==
  /\ consecutiveFailures = FailedSuffix(results)
  /\ Len(results) = completedCount
  /\ Len(timeline) = completedCount

C35_Witness ==
  /\ Len(results) = 3
  /\ ~results[1].success
  /\ results[2].success
  /\ ~results[3].success
  /\ consecutiveFailures = 1
  /\ results[3].index < results[2].index

\* ======================================================================
\* Overlapping executeSigningRequest calls: console.error, signing times
\* ======================================================================

\* C36: once no executeSigningRequest call is in flight, console.error is the
\* handler that was installed before the first call, for every interleaving
\* of the starts and completions of overlapping calls.
C36_ConsoleErrorRestored ==
  (\A id \in CallIds : calls[id].phase # "waiting") => consoleError = "original"

\* the outcomes the calls have produced, as a results array
ExecOutcomes ==
  SelectSeq([ id \in CallIds |-> calls[id].outcome ], LAMBDA r : r.settled # "no")

\* C38: a successful outcome carries tacoSigningTimeMs and a failed one
\* (signing error or timeout) does not, so in the summary of any outcomes
\* failureTacoSigningTime is null and tacoSigningTime equals
\* successTacoSigningTime.
C38_SigningTimeOnlyOnSuccess ==
  /\ \A id \in CallIds :
       calls[id].outcome.settled # "no"
         => (calls[id].outcome.tacoSigningTimeMs.has <=> calls[id].outcome.success)
  /\ StatsOrNull(TacoTimesOf(FailedResults(ExecOutcomes))) = NullStats
  /\ StatsOrNull(TacoTimesOf(ExecOutcomes))
       = StatsOrNull(TacoTimesOf(SuccessResults(ExecOutcomes)))

C38_Witness ==
  /\ Len(ExecOutcomes) = 2
  /\ \E id \in CallIds : calls[id].outcome.error = "[taco-signing]"
  /\ \E id \in CallIds : calls[id].outcome.success /\ calls[id].outcome.tacoSigningTimeMs = Some(500)
  /\ ~StatsOrNull(TacoTimesOf(ExecOutcomes)).isNull

\* ----------------------------------------------------------------------
\* Runs that must return.  The clock of this specification moves while the
\* run is suspended and a timer is still to come (the pacing sleep or the
\* timeout of a request in flight), and never past a request timer that is
\* due; timers that are due fire, the backend may stay silent for ever.
\* ----------------------------------------------------------------------

\* bounded runs of at most two requests, and runs with maxDuration
ReturningOptions ==
  { o \in SteadyModeOptions :
      /\ o.duration = Some(1)
      /\ o.maxConsecutiveFailures \in { None, Some(1) }
      /\ o.maxConsecutiveFailures.has => o.maxDuration.has }

InitReturning ==
  /\ options \in ReturningOptions
  /\ SteadyFresh
  /\ ExecIdle
  /\ BurstIdle
  /\ SweepIdle
  /\ StatsIdle
  /\ NfIdle
  /\ PrIdle
  /\ RpIdle
  /\ SdIdle

\* a request in flight whose timer has not yet run out
TimerAhead == \E i \in pendingRequests : now - startTimes[i + 1] < TimeoutMs(options)

\* a request in flight whose timer is due
TimerIsDue == \E i \in pendingRequests : TimedOut(options, now - startTimes[i + 1])

TimerTick ==
  /\ UNCHANGED otherThanSteady
  /\ pc \in {"sleep", "drain"}
  /\ (pc = "sleep" /\ now < wakeAt) \/ TimerAhead
  /\ ~TimerIsDue
  /\ now' = now + Step
  /\ UNCHANGED << options, pc, nextRequestIndex, startTimes, pendingRequests,
                  completedCount, consecutiveFailures, results, timeline,
                  stopReason, shouldStop, wakeAt, remaining, ret, summary, exitCode >>

NextReturning ==
  \/ LoopIteration
  \/ Wake
  \/ TimerTick
  \/ \E i \in 0..(MaxReq - 1), ok \in BOOLEAN : SignResolve(i, ok)
  \/ \E i \in 0..(MaxReq - 1) : TimeoutFire(i)
  \/ AfterLoop
  \/ DrainDone
  \/ MainSteady
  \/ MainSave

SpecReturning ==
  /\ InitReturning
  /\ [][NextReturning]_vars
  /\ WF_vars(LoopIteration)
  /\ WF_vars(Wake)
  /\ WF_vars(TimerTick)
  /\ \A i \in 0..(MaxReq - 1) : WF_vars(TimeoutFire(i))
  /\ WF_vars(AfterLoop)
  /\ WF_vars(DrainDone)
  /\ WF_vars(MainSteady)
  /\ WF_vars(MainSave)

\* C32: a bounded steady run returns whatever the backend does, a backend
\* that never answers included: no request stays in flight beyond the first
\* instant at which its timeout has run out, so the final drain finishes.
C32_BoundedRunReturns ==
  /\ [] (\A i \in pendingRequests : now - startTimes[i + 1] < TimeoutMs(options) + Step)
  /\ ~HasStopConditions(options) ~> ret.has

C32_Witness ==
  /\ ret.has
  /\ ~HasStopConditions(options)
  /\ Cardinality(remaining) = 2
  /\ Len(results) = 2
  /\ \A k \in 1..Len(results) : results[k].error = "[timeout]"

\* C33: a run with maxDuration returns; a loop pass made once maxDuration
\* has elapsed ends the run, the pacing sleep during which it elapses is due
\* less than one pacing interval after it, and the run returns from there
\* with its requests still in flight, whether or not one has completed.
C33_MaxDurationReturns ==
  /\ options.maxDuration.has ~> ret.has
  /\ [] ((options.maxDuration.has /\ pc = "sleep")
           => wakeAt < options.maxDuration.val * MsPerSec + IntervalMs(options.rate))
  /\ [][ (options.maxDuration.has /\ pc = "loop" /\ ~shouldStop
            /\ now >= options.maxDuration.val * MsPerSec)
           => (pc' = "after" /\ stopReason' = "duration"
               /\ nextRequestIndex' = nextRequestIndex) ]_vars
  /\ [][ (pc = "after" /\ stopReason = "duration")
           => (pc' = "returned" /\ ret'.stopReason = "duration" /\ now' = now
               /\ pendingRequests' = pendingRequests /\ results' = results) ]_vars

C33_Witness ==
  /\ ret.has
  /\ ret.stopReason = "duration"
  /\ results = << >>
  /\ Cardinality(pendingRequests) = 2

\* C37: abandoned requests cannot make the persisted steady summary
\* inconsistent: in the saved data requests.total is the length of the
\* summary's timeline, and every index of the timeline is the index of an
\* outcome counted in requests.
C37_SavedSummaryConsistent ==
  (pc = "exited" /\ summary.has) =>
    /\ summary.total = summary.timelineLen
    /\ summary.total = summary.success + summary.failed
    /\ summary.timelineLen = Len(timeline)
    /\ Indices(timeline) \subseteq { results[k].index : k \in 1..summary.total }

C37_Witness ==
  /\ pc = "exited"
  /\ summary.has
  /\ summary.total = 1
  /\ Cardinality(pendingRequests) = 2
  /\ now - startTimes[1] >= TimeoutMs(options)

====
